---- MODULE Spec2Model ----
(***************************************************************************)
(* Omnifolio: the holdings ledgers (parcel list and weighted average) and  *)
(* the market data store, modelled from omnifolio_core.                    *)
(***************************************************************************)
EXTENDS Integers, Sequences, FiniteSets, TLC

(***************************************************************************)
(* Exact rationals (fractions.Fraction): a pair <<numerator, denominator>> *)
(* in lowest terms with a positive denominator.                            *)
(***************************************************************************)
Abs(x) == IF x < 0 THEN -x ELSE x

RECURSIVE GCD(_, _)
GCD(a, b) == IF b = 0 THEN a ELSE GCD(b, a % b)

Fraction(n, d) ==
    LET g == GCD(Abs(n), Abs(d))
        s == IF d < 0 THEN -1 ELSE 1
    IN  <<(s * n) \div g, (s * d) \div g>>

FAdd(a, b) ==
    LET g == GCD(a[2], b[2])
    IN  Fraction(a[1] * (b[2] \div g) + b[1] * (a[2] \div g), a[2] * (b[2] \div g))

FNeg(a) == <<-a[1], a[2]>>

FSub(a, b) == FAdd(a, FNeg(b))

FMul(a, b) ==
    LET g1 == GCD(Abs(a[1]), b[2])
        g2 == GCD(Abs(b[1]), a[2])
    IN  Fraction((a[1] \div g1) * (b[1] \div g2), (a[2] \div g2) * (b[2] \div g1))

FDiv(a, b) == FMul(a, Fraction(b[2], b[1]))

FLt(a, b) == a[1] * b[2] < b[1] * a[2]

FLe(a, b) == a[1] * b[2] <= b[1] * a[2]

FZero == Fraction(0, 1)

(***************************************************************************)
(* Currency (structs/currency.py): an exact amount tagged with a symbol.   *)
(***************************************************************************)
\* str.strip() on the symbols that are passed to the constructor
Strip(symbol) ==
    CASE symbol = " AUD " -> "AUD"
      [] symbol = "  " -> ""
      [] OTHER -> symbol

\* __init__: the symbol is stripped and stored, whatever is left of it
Currency(symbol, value) == [symbol |-> Strip(symbol), value |-> value]

\* the check left out
ErrIfSameSymbolNever(a, b) == FALSE

\* _err_if_same_symbol: TRUE when the call raises ValueError
ErrIfSameSymbol(a, b) == a.symbol # b.symbol

\* __add__ / __sub__ on two Currency objects whose symbols match
CurrencyAdd(a, b) == [symbol |-> a.symbol, value |-> FAdd(a.value, b.value)]

CurrencySub(a, b) == [symbol |-> a.symbol, value |-> FSub(a.value, b.value)]

\* __mul__ with a dimensionless Fraction
CurrencyMul(a, x) == [symbol |-> a.symbol, value |-> FMul(a.value, x)]

\* __truediv__ with a dimensionless Fraction
CurrencyDiv(a, x) == [symbol |-> a.symbol, value |-> FDiv(a.value, x)]

\* comparison of a Currency with the plain number 0
CurrencyGtZero(a) == FLt(FZero, a.value)

CurrencyLtZero(a) == FLt(a.value, FZero)

(***************************************************************************)
(* Trades.  TradeInfo carries unit_price and total_fees as Currency and    *)
(* unit_quantity as a Fraction; get_trades admits unit_quantity > 0,       *)
(* unit_price >= 0 and fees >= 0 only.                                     *)
(***************************************************************************)
TradeInfo(tt, acct, sym, q, price, fees) ==
    [trade_type |-> tt, account |-> acct, ric_symbol |-> sym,
     unit_quantity |-> q, unit_price |-> price, total_fees |-> fees]

AUD(n, d) == Currency("AUD", Fraction(n, d))

Accounts == {"CommSec ...123", "Stake ...456"}

Symbols == {"IVV.AX", "NDQ.AX"}

\* the first three rows of the sample trades file
Sample1 == TradeInfo("buy",  "CommSec ...123", "IVV.AX", Fraction(32, 1), AUD(43921, 100), AUD(2995, 100))

Sample2 == TradeInfo("buy",  "CommSec ...123", "IVV.AX", Fraction(20, 1), AUD(47803, 100), AUD(1995, 100))

Sample3 == TradeInfo("sell", "CommSec ...123", "IVV.AX", Fraction(22, 1), AUD(44935, 100), AUD(1995, 100))

SampleTrades == {Sample1, Sample2, Sample3}

\* two acquisitions (10 at 100, 5 at 200) and a disposal of 3, without fees
ExBuy10 == TradeInfo("buy",  "CommSec ...123", "IVV.AX", Fraction(10, 1), AUD(100, 1), AUD(0, 1))

ExBuy5 == TradeInfo("buy",  "CommSec ...123", "IVV.AX", Fraction(5, 1),  AUD(200, 1), AUD(0, 1))

ExSell3 == TradeInfo("sell", "CommSec ...123", "IVV.AX", Fraction(3, 1),  AUD(150, 1), AUD(0, 1))

ExampleTrades == {ExBuy10, ExBuy5, ExSell3}

SmallBuys ==
    { TradeInfo("buy", a, s, Fraction(1, 1), AUD(100, 1), AUD(5, 1)) : a \in Accounts, s \in Symbols }
    \cup
    { TradeInfo("buy", a, s, Fraction(2, 1), AUD(201, 1), AUD(5, 1)) : a \in Accounts, s \in Symbols }

SmallSells ==
    { TradeInfo("sell", a, s, Fraction(q, 1), AUD(150, 1), AUD(5, 1)) :
        a \in Accounts, s \in Symbols, q \in 1..3 }

\* buys priced, or charged, in a second currency
ForeignBuys ==
    { TradeInfo("buy", "Stake ...456", "NDQ.AX", Fraction(1, 1), Currency("USD", Fraction(100, 1)), Currency("USD", Fraction(5, 1))),
      TradeInfo("buy", "Stake ...456", "NDQ.AX", Fraction(1, 1), AUD(100, 1), Currency("USD", Fraction(5, 1))) }

TradeInputs == SampleTrades \cup ExampleTrades \cup SmallBuys \cup SmallSells \cup ForeignBuys

MaxTrades == 3

(***************************************************************************)
(* Dictionaries with a changing key set.                                   *)
(***************************************************************************)
EmptyDict == [k \in {} |-> 0]

DictPut(f, k, v) == [x \in (DOMAIN f) \cup {k} |-> IF x = k THEN v ELSE f[x]]

DictDel(f, k) == [x \in (DOMAIN f) \ {k} |-> f[x]]

VARIABLES
    ledger,          \* which ledger class was constructed
    group_fn,        \* PortfolioHoldingsAvgCost._group_fn: "account" or "global"
    p_stocks,        \* PortfolioHoldings._stocks: account -> symbol -> list of lots
    a_stocks,        \* PortfolioHoldingsAvgCost._stocks: group -> symbol -> aggregate
    pc,              \* "idle", or "walk" inside the lot walk of a parcel sell
    trade_detail,    \* the trade of the sell in progress
    yet_to_dispose,  \* local of the lot walk
    disposed_stocks, \* disposal records collected so far by the lot walk
    pre,             \* _stocks as it was when the latest call of trade() began
    log,             \* one entry per finished call of trade(): trade, outcome, diff
    store,           \* table stock_timeseries_daily: a set of rows
    forex,           \* table forex_timeseries_daily: a set of rows
    pre_store,       \* both tables as they were when the latest update began
    last_pull,       \* the arguments and the outcome of the latest update
    repeated,        \* the latest update had the arguments of the one before it
    n_updates,       \* number of updates so far
    call,            \* the arguments of _generate_portfolio_history as the caller passed them
    kwargs,          \* the caller's starting ledgers as they are now
    holdings_acc_avgs,    \* local of the generator: the ledger grouped by account
    holdings_global_avgs, \* local of the generator: the ledger with the one group ""
    history,         \* the entries the generator has yielded in this run
    gen,             \* "none", "created", "running", "returned" or "raised"
    first_run,       \* what the first run over the arguments yielded and how it ended
    trades_file,     \* get_trades: the rows of the trades file below the label row
    trades_ret,      \* get_trades: what the call returned or raised
    money_self,      \* a Currency object: the left operand
    money_other,     \* a Currency object: the right operand
    money_op,        \* the latest operation on them: its arguments and its result
    series_data,     \* _add_user_overrides: data, symbol -> date -> row of the series
    stock_dividend_overrides, \* the rows of the overrides file, in file order
    overrides_ret    \* how the call ended, and data as the call left it

ledgerVars == <<ledger, group_fn, p_stocks, a_stocks, pc, trade_detail,
                yet_to_dispose, disposed_stocks, pre, log>>

storeVars == <<store, forex, pre_store, last_pull, repeated, n_updates>>

historyVars == <<call, kwargs, holdings_acc_avgs, holdings_global_avgs, history,
                 gen, first_run>>

sourceVars == <<trades_file, trades_ret>>

moneyVars == <<money_self, money_other, money_op>>

overrideVars == <<series_data, stock_dividend_overrides, overrides_ret>>

\* what the actions of the ledgers and of the store leave alone
otherVars == <<historyVars, sourceVars, moneyVars, overrideVars>>

vars == <<ledger, group_fn, p_stocks, a_stocks, pc, trade_detail,
          yet_to_dispose, disposed_stocks, pre, log,
          store, forex, pre_store, last_pull, repeated, n_updates,
          call, kwargs, holdings_acc_avgs, holdings_global_avgs, history,
          gen, first_run, trades_file, trades_ret, money_self, money_other, money_op,
          series_data, stock_dividend_overrides, overrides_ret>>

NoTrade == [trade_type |-> "none"]

\* the trade date of the next trade: trades arrive in chronological order
Today == Len(log) + 1

LogEntry(t, outcome, acquired, disposed) ==
    [trade |-> t, trade_date |-> Today, outcome |-> outcome,
     acquired |-> acquired, disposed |-> disposed]

NoDiff == [stocks |-> <<>>, currency |-> <<>>]

(***************************************************************************)
(* PortfolioHoldings (portfolio_holdings.py): lots per account and symbol. *)
(***************************************************************************)
\* self._stocks[account][symbol] on the defaultdict of defaultdict(list):
\* reading creates the missing keys
PVivify(stocks, acct, sym) ==
    LET inner == IF acct \in DOMAIN stocks THEN stocks[acct] ELSE EmptyDict
    IN  IF sym \in DOMAIN inner
        THEN DictPut(stocks, acct, inner)
        ELSE DictPut(stocks, acct, DictPut(inner, sym, <<>>))

PSetList(stocks, acct, sym, list) ==
    DictPut(stocks, acct, DictPut(stocks[acct], sym, list))

NewLot(t, date) ==
    [acquired_on |-> date,
     unit_quantity |-> t.unit_quantity,
     unit_price |-> t.unit_price,
     fees_per_unit |-> CurrencyDiv(t.total_fees, t.unit_quantity)]

\* the cash leg of a buy
PBuyDisposedCurrency(d) ==
    LET a == CurrencyMul(d.unit_price, d.unit_quantity)
        b == CurrencyMul(d.fees_per_unit, d.unit_quantity)
    IN  IF a.symbol = b.symbol THEN <<CurrencyAdd(a, b)>> ELSE <<b, a>>

PBuy(t) ==
    /\ ledger = "PortfolioHoldings"
    /\ pc = "idle"
    /\ Len(log) < MaxTrades
    /\ t.trade_type = "buy"
    /\ LET d == NewLot(t, Today)
           viv == PVivify(p_stocks, t.account, t.ric_symbol)
           acq == [account |-> t.account, ric_symbol |-> t.ric_symbol,
                   acquired_on |-> d.acquired_on, unit_quantity |-> d.unit_quantity,
                   unit_price |-> d.unit_price, fees_per_unit |-> d.fees_per_unit]
       IN  /\ p_stocks' = PSetList(viv, t.account, t.ric_symbol,
                                   Append(viv[t.account][t.ric_symbol], d))
           /\ log' = Append(log, LogEntry(t, "ok",
                         [stocks |-> <<acq>>, currency |-> <<>>],
                         [stocks |-> <<>>, currency |-> PBuyDisposedCurrency(d)]))
    /\ pre' = p_stocks
    /\ UNCHANGED <<ledger, group_fn, a_stocks, pc, trade_detail, yet_to_dispose,
                   disposed_stocks, storeVars, otherVars>>

\* lines 101-106: look the list up (creating it when missing) and enter the loop
PSellBegin(t) ==
    /\ ledger = "PortfolioHoldings"
    /\ pc = "idle"
    /\ Len(log) < MaxTrades
    /\ t.trade_type = "sell"
    /\ p_stocks' = PVivify(p_stocks, t.account, t.ric_symbol)
    /\ pre' = p_stocks
    /\ trade_detail' = t
    /\ yet_to_dispose' = t.unit_quantity
    /\ disposed_stocks' = <<>>
    /\ pc' = "walk"
    /\ UNCHANGED <<ledger, group_fn, a_stocks, log, storeVars, otherVars>>

HoldingsList == p_stocks[trade_detail.account][trade_detail.ric_symbol]

\* holdings_list[0]: the oldest lot rather than the newest
HoldingIndexFirst(list) == 1

\* holdings_list[-1]
HoldingIndex(list) == Len(list)

\* the comparison of line 110 turned around
HoldingExceedsFlipped(holding, yet) == FLt(holding.unit_quantity, yet)

\* line 110: the lot is larger than what is still to be disposed
HoldingExceeds(holding, yet) == FLt(yet, holding.unit_quantity)

\* the whole of the trade's fees on every record
DisposalWholeFees(t, holding, q) ==
    [ric_symbol |-> t.ric_symbol,
     account |-> t.account,
     acquired_on |-> holding.acquired_on,
     disposed_on |-> Today,
     unit_quantity |-> q,
     acquisition_unit_price |-> holding.unit_price,
     disposal_unit_price |-> t.unit_price,
     acquisition_fees_per_unit |-> holding.fees_per_unit,
     disposal_fees_per_unit |-> t.total_fees]

\* lines 114-124 and 133-143: the disposal record of q units of one lot
Disposal(t, holding, q) ==
    [ric_symbol |-> t.ric_symbol,
     account |-> t.account,
     acquired_on |-> holding.acquired_on,
     disposed_on |-> Today,
     unit_quantity |-> q,
     acquisition_unit_price |-> holding.unit_price,
     disposal_unit_price |-> t.unit_price,
     acquisition_fees_per_unit |-> holding.fees_per_unit,
     disposal_fees_per_unit |-> CurrencyDiv(t.total_fees, t.unit_quantity)]

\* lines 110-128: split the lot
PWalkSplit ==
    /\ pc = "walk"
    /\ FLt(FZero, yet_to_dispose)
    /\ Len(HoldingsList) > 0
    /\ LET i == HoldingIndex(HoldingsList)
           holding == HoldingsList[i]
       IN  /\ HoldingExceeds(holding, yet_to_dispose)
           /\ p_stocks' = PSetList(p_stocks, trade_detail.account, trade_detail.ric_symbol,
                    [HoldingsList EXCEPT ![i].unit_quantity =
                        FSub(holding.unit_quantity, yet_to_dispose)])
           /\ disposed_stocks' = Append(disposed_stocks,
                    Disposal(trade_detail, holding, yet_to_dispose))
           /\ yet_to_dispose' = FZero
    /\ UNCHANGED <<ledger, group_fn, a_stocks, pc, trade_detail, pre, log,
                   storeVars, otherVars>>

\* del holdings_list[-1]
DelLast(list) == SubSeq(list, 1, Len(list) - 1)

\* lines 130-148: consume the lot whole and remove it
PWalkConsume ==
    /\ pc = "walk"
    /\ FLt(FZero, yet_to_dispose)
    /\ Len(HoldingsList) > 0
    /\ LET i == HoldingIndex(HoldingsList)
           holding == HoldingsList[i]
       IN  /\ ~HoldingExceeds(holding, yet_to_dispose)
           /\ FLe(holding.unit_quantity, yet_to_dispose)
           /\ disposed_stocks' = Append(disposed_stocks,
                    Disposal(trade_detail, holding, holding.unit_quantity))
           /\ yet_to_dispose' = FSub(yet_to_dispose, holding.unit_quantity)
           /\ p_stocks' = PSetList(p_stocks, trade_detail.account, trade_detail.ric_symbol,
                    DelLast(HoldingsList))
    /\ UNCHANGED <<ledger, group_fn, a_stocks, pc, trade_detail, pre, log,
                   storeVars, otherVars>>

\* line 109 on an empty list: holdings_list[-1] raises IndexError
PWalkIndexError ==
    /\ pc = "walk"
    /\ FLt(FZero, yet_to_dispose)
    /\ Len(HoldingsList) = 0
    /\ log' = Append(log, LogEntry(trade_detail, "IndexError", NoDiff, NoDiff))
    /\ pc' = "idle"
    /\ trade_detail' = NoTrade
    /\ yet_to_dispose' = FZero
    /\ disposed_stocks' = <<>>
    /\ UNCHANGED <<ledger, group_fn, p_stocks, a_stocks, pre, storeVars, otherVars>>

\* lines 150-164: the cash legs of a sell
PSellCash(t) ==
    LET a == CurrencyMul(t.unit_price, t.unit_quantity)
        b == t.total_fees
    IN  IF a.symbol = b.symbol
        THEN LET c == CurrencySub(a, b)
             IN  [acquired |-> IF CurrencyGtZero(c) THEN <<c>> ELSE <<>>,
                  disposed |-> IF CurrencyLtZero(c) THEN <<c>> ELSE <<>>]
        ELSE [acquired |-> IF CurrencyGtZero(a) THEN <<a>> ELSE <<>>,
              disposed |-> IF CurrencyGtZero(b) THEN <<b>> ELSE <<>>]

\* lines 166-169: the checks after the loop
PSellOutcome(yet) ==
    IF FLt(FZero, yet) THEN "ValueError: sell more units than owned"
    ELSE IF FLt(yet, FZero) THEN "RuntimeError"
    ELSE "ok"

\* lines 150-173: the loop has ended
PSellReturn ==
    /\ pc = "walk"
    /\ ~FLt(FZero, yet_to_dispose)
    /\ LET cash == PSellCash(trade_detail)
           outcome == PSellOutcome(yet_to_dispose)
       IN  log' = Append(log,
               IF outcome = "ok"
               THEN LogEntry(trade_detail, "ok",
                        [stocks |-> <<>>, currency |-> cash.acquired],
                        [stocks |-> disposed_stocks, currency |-> cash.disposed])
               ELSE LogEntry(trade_detail, outcome, NoDiff, NoDiff))
    /\ pc' = "idle"
    /\ trade_detail' = NoTrade
    /\ yet_to_dispose' = FZero
    /\ disposed_stocks' = <<>>
    /\ UNCHANGED <<ledger, group_fn, p_stocks, a_stocks, pre, storeVars, otherVars>>

(***************************************************************************)
(* PortfolioHoldingsAvgCost (portfolio_holdings_avg_cost.py): one          *)
(* aggregate per group and symbol.                                         *)
(***************************************************************************)
\* self._group_fn(trade_detail): by account, or the constant "" of the global ledger
GroupBy(fn, t) == IF fn = "account" THEN t.account ELSE ""

Group(t) == GroupBy(group_fn, t)

\* self._stocks[group] on the defaultdict(dict): reading creates the missing group
AVivify(stocks, g) == IF g \in DOMAIN stocks THEN stocks ELSE DictPut(stocks, g, EmptyDict)

ASetEntry(stocks, g, sym, d) == DictPut(stocks, g, DictPut(stocks[g], sym, d))

\* "=" with the latest price in place of "+="
ABuyTotalValueLatestPrice(d, t) ==
    [symbol |-> d.total_value.symbol,
     value |-> FMul(t.unit_price.value, FAdd(d.unit_quantity, t.unit_quantity))]

\* lines 83-85: fold the purchase into the aggregate
ABuyTotalValue(d, t) == CurrencyAdd(d.total_value, CurrencyMul(t.unit_price, t.unit_quantity))

ABuyTotalFees(d, t) == CurrencyAdd(d.total_fees, t.total_fees)

ABuyUnitQuantity(d, t) == FAdd(d.unit_quantity, t.unit_quantity)

\* lines 81-91: the ledger after the buy and whether the buy raised
ABuyResultFor(g, stocks, t) ==
    LET sym == t.ric_symbol
        viv == AVivify(stocks, g)
    IN  IF sym \in DOMAIN viv[g]
        THEN LET d == viv[g][sym]
                 d1 == [d EXCEPT !.total_value = ABuyTotalValue(d, t)]
                 d2 == [d1 EXCEPT !.total_fees = ABuyTotalFees(d1, t)]
                 d3 == [d2 EXCEPT !.unit_quantity = ABuyUnitQuantity(d2, t)]
             IN  IF ErrIfSameSymbol(d.total_value, t.unit_price)
                 THEN [outcome |-> "ValueError: mismatched currencies", stocks |-> viv]
                 ELSE IF ErrIfSameSymbol(d1.total_fees, t.total_fees)
                 THEN [outcome |-> "ValueError: mismatched currencies",
                       stocks |-> ASetEntry(viv, g, sym, d1)]
                 ELSE [outcome |-> "ok", stocks |-> ASetEntry(viv, g, sym, d3)]
        ELSE [outcome |-> "ok",
              stocks |-> ASetEntry(viv, g, sym,
                  [total_value |-> CurrencyMul(t.unit_price, t.unit_quantity),
                   total_fees |-> t.total_fees,
                   unit_quantity |-> t.unit_quantity])]

ABuyResult(stocks, t) == ABuyResultFor(Group(t), stocks, t)

\* lines 93-107: the diff of a buy made on trade_date
ABuyAcquiredOn(trade_date, t) ==
    [stocks |-> << [account |-> "None", ric_symbol |-> t.ric_symbol,
                    acquisition_date |-> trade_date,
                    unit_price |-> t.unit_price,
                    fees_per_unit |-> CurrencyDiv(t.total_fees, t.unit_quantity),
                    unit_quantity |-> t.unit_quantity] >>,
     currency |-> <<>>]

ABuyAcquired(t) == ABuyAcquiredOn(Today, t)

ABuyDisposed(t) ==
    [stocks |-> <<>>,
     currency |-> <<CurrencyMul(t.unit_price, t.unit_quantity)>>
                  \o (IF CurrencyGtZero(t.total_fees) THEN <<t.total_fees>> ELSE <<>>)]

ABuy(t) ==
    /\ ledger = "PortfolioHoldingsAvgCost"
    /\ pc = "idle"
    /\ Len(log) < MaxTrades
    /\ t.trade_type = "buy"
    /\ LET r == ABuyResult(a_stocks, t)
       IN  /\ a_stocks' = r.stocks
           /\ log' = Append(log,
                  IF r.outcome = "ok"
                  THEN LogEntry(t, "ok", ABuyAcquired(t), ABuyDisposed(t))
                  ELSE LogEntry(t, r.outcome, NoDiff, NoDiff))
    /\ pre' = a_stocks
    /\ UNCHANGED <<ledger, group_fn, p_stocks, pc, trade_detail, yet_to_dispose,
                   disposed_stocks, storeVars, otherVars>>

\* line 111
RemainingUnits(d, t) == FSub(d.unit_quantity, t.unit_quantity)

\* line 112: the sell asks for more than is held
ASellExceeds(d, t) == FLt(RemainingUnits(d, t), FZero)

\* lines 120-121
AcquisitionUnitPrice(d) == CurrencyDiv(d.total_value, d.unit_quantity)

\* the whole of total_fees charged to every unit
AcquisitionFeesPerUnitUndivided(d) == d.total_fees

AcquisitionFeesPerUnit(d) == CurrencyDiv(d.total_fees, d.unit_quantity)

\* total_value reduced by the sale proceeds instead of the cost of the units sold
ASellRemainderLessProceeds(d, t) ==
    [total_value |-> CurrencySub(d.total_value, CurrencyMul(t.unit_price, t.unit_quantity)),
     total_fees |-> CurrencyMul(AcquisitionFeesPerUnit(d), RemainingUnits(d, t)),
     unit_quantity |-> RemainingUnits(d, t)]

\* lines 145-148: the aggregate left by a partial sell
ASellRemainder(d, t) ==
    [total_value |-> CurrencyMul(AcquisitionUnitPrice(d), RemainingUnits(d, t)),
     total_fees |-> CurrencyMul(AcquisitionFeesPerUnit(d), RemainingUnits(d, t)),
     unit_quantity |-> RemainingUnits(d, t)]

\* lines 150-153: delete the symbol, and the group when it became empty
ASellPrune(stocks, g, sym) ==
    LET inner == DictDel(stocks[g], sym)
    IN  IF DOMAIN inner = {} THEN DictDel(stocks, g) ELSE DictPut(stocks, g, inner)

ADisposalOn(trade_date, d, t) ==
    [account |-> "None",
     ric_symbol |-> t.ric_symbol,
     acquisition_date |-> "None",
     acquisition_unit_price |-> AcquisitionUnitPrice(d),
     acquisition_fees_per_unit |-> AcquisitionFeesPerUnit(d),
     disposal_date |-> trade_date,
     disposal_unit_price |-> t.unit_price,
     disposal_fees_per_unit |-> CurrencyDiv(t.total_fees, t.unit_quantity),
     unit_quantity |-> t.unit_quantity]

ADisposal(d, t) == ADisposalOn(Today, d, t)

\* lines 109-153: the ledger after the sell, the outcome and the disposal record
ASellResultFor(g, trade_date, stocks, t) ==
    LET sym == t.ric_symbol
        viv == AVivify(stocks, g)
    IN  IF sym \notin DOMAIN viv[g]
        THEN [outcome |-> "KeyError", stocks |-> viv, disposed |-> <<>>]
        ELSE LET d == viv[g][sym]
             IN  IF ASellExceeds(d, t)
                 THEN [outcome |-> "ValueError: sell more units than owned",
                       stocks |-> viv, disposed |-> <<>>]
                 ELSE [outcome |-> "ok",
                       stocks |-> IF FLt(FZero, RemainingUnits(d, t))
                                  THEN ASetEntry(viv, g, sym, ASellRemainder(d, t))
                                  ELSE ASellPrune(viv, g, sym),
                       disposed |-> <<ADisposalOn(trade_date, d, t)>>]

ASellResult(stocks, t) == ASellResultFor(Group(t), Today, stocks, t)

ASell(t) ==
    /\ ledger = "PortfolioHoldingsAvgCost"
    /\ pc = "idle"
    /\ Len(log) < MaxTrades
    /\ t.trade_type = "sell"
    /\ LET r == ASellResult(a_stocks, t)
       IN  /\ a_stocks' = r.stocks
           /\ log' = Append(log,
                  IF r.outcome = "ok"
                  THEN LogEntry(t, "ok",
                           [stocks |-> <<>>,
                            currency |-> <<CurrencyMul(t.unit_price, t.unit_quantity)>>],
                           [stocks |-> r.disposed,
                            currency |-> IF CurrencyGtZero(t.total_fees)
                                         THEN <<t.total_fees>> ELSE <<>>])
                  ELSE LogEntry(t, r.outcome, NoDiff, NoDiff))
    /\ pre' = a_stocks
    /\ UNCHANGED <<ledger, group_fn, p_stocks, pc, trade_detail, yet_to_dispose,
                   disposed_stocks, storeVars, otherVars>>

(***************************************************************************)
(* The ledgers: one ledger object, fed trades one at a time.               *)
(***************************************************************************)
NoPull == [table |-> "none"]

NoObject == [ref |-> "none", value |-> << >>]

NoRun == [gen |-> "none"]

HistoryIdle ==
    /\ call = [trade_history |-> <<>>, kwargs |-> << >>]
    /\ kwargs = << >>
    /\ holdings_acc_avgs = NoObject
    /\ holdings_global_avgs = NoObject
    /\ history = <<>>
    /\ gen = "none"
    /\ first_run = NoRun

NoCallYet == [outcome |-> "none"]

SourceIdle ==
    /\ trades_file = <<>>
    /\ trades_ret = NoCallYet

NoOperation == [op |-> "none"]

MoneyIdle ==
    /\ money_self = [symbol |-> "AUD", value |-> FZero]
    /\ money_other = [symbol |-> "AUD", value |-> FZero]
    /\ money_op = NoOperation

OverridesIdle ==
    /\ series_data = << >>
    /\ stock_dividend_overrides = <<>>
    /\ overrides_ret = NoCallYet

OthersIdle == HistoryIdle /\ SourceIdle /\ MoneyIdle /\ OverridesIdle

StoreIdle ==
    /\ store = {}
    /\ forex = {}
    /\ pre_store = [stock |-> {}, forex |-> {}]
    /\ last_pull = NoPull
    /\ repeated = FALSE
    /\ n_updates = 0

InitLedger ==
    /\ \/ ledger = "PortfolioHoldings" /\ group_fn = "account"
       \/ ledger = "PortfolioHoldingsAvgCost" /\ group_fn \in {"account", "global"}
    /\ p_stocks = EmptyDict
    /\ a_stocks = EmptyDict
    /\ pc = "idle"
    /\ trade_detail = NoTrade
    /\ yet_to_dispose = FZero
    /\ disposed_stocks = <<>>
    /\ pre = EmptyDict
    /\ log = <<>>
    /\ StoreIdle
    /\ OthersIdle

NextLedger ==
    \/ \E t \in TradeInputs : PBuy(t)
    \/ \E t \in TradeInputs : PSellBegin(t)
    \/ PWalkSplit
    \/ PWalkConsume
    \/ PWalkIndexError
    \/ PSellReturn
    \/ \E t \in TradeInputs : ABuy(t)
    \/ \E t \in TradeInputs : ASell(t)

SpecLedger == InitLedger /\ [][NextLedger]_vars

TypeOKLedger ==
    /\ pc \in {"idle", "walk"}
    /\ Len(log) <= MaxTrades

(***************************************************************************)
(* MarketDataStore (market_data_store.py): the two daily tables.  A row is *)
(* its primary key (symbol or currency pair, date, data_source) and the    *)
(* remaining columns.                                                      *)
(***************************************************************************)
Providers == {"YahooFinanceLib", "RAADYahooFinance"}

TrustValue(provider) == IF provider = "YahooFinanceLib" THEN -130 ELSE -240

MaxDate == 7

Dates == 1..MaxDate

\* a provider's data changes between pulls
Revisions == {1, 2}

\* a pull in which the provider returns one row whose split is an int
MalformedRevision == 3

MalformedDate == 3

\* one row of the DataFrame a provider returns for a stock
StockDfRow(provider, date, rev) ==
    [data_source |-> provider,
     data_trust_value |-> TrustValue(provider),
     data_collection_time |-> rev,
     unit |-> "AUD",
     open |-> 1000 * date + rev,
     high |-> 1000 * date + rev + 20,
     low |-> 1000 * date + rev - 20,
     close |-> 1000 * date + rev + 10,
     adjusted_close |-> 1000 * date + rev + 10,
     price_denominator |-> 100,
     volume |-> 5000 + rev,
     exdividend |-> IF date = 3 THEN 7 * rev ELSE 0,
     dividend_denominator |-> 100,
     split |-> [type |-> IF rev = MalformedRevision /\ date = MalformedDate
                         THEN "int" ELSE "float",
                value |-> 1]]

\* one row of the DataFrame a provider returns for a currency pair
ForexDfRow(provider, date, rev) ==
    [data_source |-> provider,
     data_trust_value |-> TrustValue(provider),
     data_collection_time |-> rev,
     open |-> 7000 + 10 * date + rev,
     high |-> 7000 + 10 * date + rev + 2,
     low |-> 7000 + 10 * date + rev - 2,
     close |-> 7000 + 10 * date + rev + 1,
     denominator |-> 10000]

\* the DataFrame: dates lo..hi, one row each
StockDf(provider, lo, hi, rev) == [d \in lo..hi |-> StockDfRow(provider, d, rev)]

ForexDf(provider, lo, hi, rev) == [d \in lo..hi |-> ForexDfRow(provider, d, rev)]

\* the columns that are not part of the primary key
Columns(df_row) == [c \in (DOMAIN df_row) \ {"data_source"} |-> df_row[c]]

\* the WHERE clause without "AND data_source = ?"
GetDatesAsSetAnySource(table, key, provider) ==
    {r.date : r \in {x \in table : x.key = key}}

\* _get_dates_as_set: the dates stored for the key under this provider
GetDatesAsSet(table, key, provider) ==
    {r.date : r \in {x \in table : x.key = key /\ x.data_source = provider}}

\* sorted(stored_dates)[-5:]
RevisionWindow == 5

RECURSIVE Sorted(_)
Sorted(S) ==
    IF S = {} THEN <<>>
    ELSE LET m == CHOOSE x \in S : \A y \in S : x <= y
         IN  <<m>> \o Sorted(S \ {m})

\* [-1:] in place of [-5:]
LastNOne(seq, n) == SubSeq(seq, Len(seq), Len(seq))

LastN(seq, n) == SubSeq(seq, IF Len(seq) > n THEN Len(seq) - n + 1 ELSE 1, Len(seq))

\* sorted(stored_dates) without the slice
DatesToUpdateUnsliced(stored_dates) == stored_dates

DatesToUpdate(stored_dates) ==
    LET latest == LastN(Sorted(stored_dates), RevisionWindow)
    IN  {latest[i] : i \in 1..Len(latest)}

\* only the earliest of the missing dates
DatesMissingInStoreFirstOnly(pulled_dates, stored_dates) ==
    {d \in pulled_dates \ stored_dates : \A e \in pulled_dates \ stored_dates : d <= e}

\* pulled_dates - stored_dates
DatesMissingInStore(pulled_dates, stored_dates) == pulled_dates \ stored_dates

\* DELETE in place of UPDATE
UpdateDataDeleting(table, key, date, df_row) ==
    {r \in table : ~(r.key = key /\ r.date = date /\ r.data_source = df_row.data_source)}

\* _update_data: UPDATE ... SET every column WHERE key, date and data_source match
UpdateData(table, key, date, df_row) ==
    {IF r.key = key /\ r.date = date /\ r.data_source = df_row.data_source
     THEN [r EXCEPT !.cols = Columns(df_row)]
     ELSE r : r \in table}

\* the asserts at the head of _add_data and _update_data; split must be a float
TypeChecksPass(df_row) ==
    "split" \in DOMAIN df_row => df_row.split.type = "float"

\* the connection inside the with block: the table as its statements have left
\* it, and whether the block has raised
Connect(table) == [table |-> table, outcome |-> "ok"]

\* lines 205-213: the loop that calls _update_data for every provided date, up
\* to the first call that raises.  The loop walks a Python set; the dates are
\* taken in ascending order here.
RECURSIVE UpdateEach(_, _, _, _)
UpdateEach(conn, key, dates, df) ==
    IF dates = {} THEN conn
    ELSE LET date == CHOOSE d \in dates : \A e \in dates : d <= e
         IN  IF ~TypeChecksPass(df[date])
             THEN [conn EXCEPT !.outcome = "AssertionError"]
             ELSE UpdateEach([conn EXCEPT !.table = UpdateData(@, key, date, df[date])],
                             key, dates \ {date}, df)

\* an INSERT that leaves data_collection_time unset
AddDataRowUnstamped(key, date, df_row) ==
    [key |-> key, date |-> date, data_source |-> df_row.data_source,
     cols |-> [Columns(df_row) EXCEPT !.data_collection_time = 0]]

\* _add_data: the row INSERT adds
AddDataRow(key, date, df_row) ==
    [key |-> key, date |-> date, data_source |-> df_row.data_source, cols |-> Columns(df_row)]

\* the primary key constraint: an INSERT of a stored key raises IntegrityError
KeyStored(table, row) ==
    \E r \in table : r.key = row.key /\ r.date = row.date /\ r.data_source = row.data_source

\* lines 218-226: the loop that calls _add_data for every missing date, up to
\* the first call that raises
RECURSIVE AddEach(_, _, _, _)
AddEach(conn, key, dates, df) ==
    IF dates = {} THEN conn
    ELSE LET date == CHOOSE d \in dates : \A e \in dates : d <= e
             row == AddDataRow(key, date, df[date])
         IN  IF ~TypeChecksPass(df[date])
             THEN [conn EXCEPT !.outcome = "AssertionError"]
             ELSE IF KeyStored(conn.table, row)
                  THEN [conn EXCEPT !.outcome = "IntegrityError"]
                  ELSE AddEach([conn EXCEPT !.table = @ \cup {row}], key, dates \ {date}, df)

\* a connection that commits whatever the block did
ConnectionExitCommitting(committed, conn) ==
    [outcome |-> conn.outcome, table |-> conn.table]

\* "with sqlite3.connect(...) as conn": the transaction commits when the block
\* ends normally and rolls back when it raises
ConnectionExit(committed, conn) ==
    IF conn.outcome = "ok"
    THEN [outcome |-> "ok", table |-> conn.table]
    ELSE [outcome |-> conn.outcome, table |-> committed]

\* update_stock_timeseries_daily / update_forex_timeseries_daily: the outcome of
\* the call and the table after it
UpdateTimeseriesDaily(table, key, provider_name, df) ==
    LET stored_dates == GetDatesAsSet(table, key, provider_name)
        pulled_dates == DOMAIN df
        provided == IF stored_dates # {}
                    THEN pulled_dates \cap DatesToUpdate(stored_dates)
                    ELSE {}
        updated == UpdateEach(Connect(table), key, provided, df)
        added == IF updated.outcome = "ok"
                 THEN AddEach(updated, key, DatesMissingInStore(pulled_dates, stored_dates), df)
                 ELSE updated
    IN  ConnectionExit(table, added)

MaxUpdates == 3

StockSymbols == {"IVV.AX", "NDQ.AX"}

CurrencyPairs == {<<"USD", "AUD">>}

\* the pulls of the main provider for one symbol (a series that starts at the
\* first date or ends at the last), and a few for the second symbol and the
\* second provider
StockPulls ==
    { [key |-> "IVV.AX", provider |-> "YahooFinanceLib", lo |-> 1, hi |-> hi, rev |-> rev] :
        hi \in Dates, rev \in Revisions }
    \cup
    { [key |-> "IVV.AX", provider |-> "YahooFinanceLib", lo |-> lo, hi |-> MaxDate, rev |-> rev] :
        lo \in Dates, rev \in Revisions }
    \cup
    { [key |-> k, provider |-> p, lo |-> 1, hi |-> hi, rev |-> rev] :
        k \in StockSymbols, p \in Providers, hi \in {2}, rev \in Revisions }

\* pulls of the main provider in which the row of MalformedDate fails its type
\* checks
MalformedPulls ==
    { [key |-> "IVV.AX", provider |-> "YahooFinanceLib", lo |-> 1, hi |-> hi,
       rev |-> MalformedRevision] : hi \in {MalformedDate, MaxDate} }

ForexPulls ==
    { [key |-> k, provider |-> "YahooFinanceLib", lo |-> lo, hi |-> MaxDate, rev |-> rev] :
        k \in CurrencyPairs, lo \in {1, MaxDate - 1}, rev \in Revisions }

UpdateStockTimeseriesDaily(in) ==
    /\ n_updates < MaxUpdates
    /\ in.lo <= in.hi
    /\ LET r == UpdateTimeseriesDaily(store, in.key, in.provider,
                                      StockDf(in.provider, in.lo, in.hi, in.rev))
           args == [table |-> "stock_timeseries_daily", key |-> in.key,
                    provider |-> in.provider, lo |-> in.lo, hi |-> in.hi, rev |-> in.rev]
       IN  /\ store' = r.table
           /\ last_pull' = [args |-> args, outcome |-> r.outcome, table |-> args.table]
           /\ repeated' = (last_pull.table # "none" /\ last_pull.args = args)
    /\ pre_store' = [stock |-> store, forex |-> forex]
    /\ n_updates' = n_updates + 1
    /\ UNCHANGED <<forex, ledgerVars, otherVars>>

UpdateForexTimeseriesDaily(in) ==
    /\ n_updates < MaxUpdates
    /\ in.lo <= in.hi
    /\ LET r == UpdateTimeseriesDaily(forex, in.key, in.provider,
                                      ForexDf(in.provider, in.lo, in.hi, in.rev))
           args == [table |-> "forex_timeseries_daily", key |-> in.key,
                    provider |-> in.provider, lo |-> in.lo, hi |-> in.hi, rev |-> in.rev]
       IN  /\ forex' = r.table
           /\ last_pull' = [args |-> args, outcome |-> r.outcome, table |-> args.table]
           /\ repeated' = (last_pull.table # "none" /\ last_pull.args = args)
    /\ pre_store' = [stock |-> store, forex |-> forex]
    /\ n_updates' = n_updates + 1
    /\ UNCHANGED <<store, ledgerVars, otherVars>>

LedgerIdle ==
    /\ ledger = "PortfolioHoldingsAvgCost"
    /\ group_fn = "global"
    /\ p_stocks = EmptyDict
    /\ a_stocks = EmptyDict
    /\ pc = "idle"
    /\ trade_detail = NoTrade
    /\ yet_to_dispose = FZero
    /\ disposed_stocks = <<>>
    /\ pre = EmptyDict
    /\ log = <<>>

InitStore == LedgerIdle /\ StoreIdle /\ OthersIdle

NextStore ==
    \/ \E in \in StockPulls \cup MalformedPulls : UpdateStockTimeseriesDaily(in)
    \/ \E in \in ForexPulls : UpdateForexTimeseriesDaily(in)

SpecStore == InitStore /\ [][NextStore]_vars

TypeOKStore == n_updates <= MaxUpdates

(***************************************************************************)
(* Properties of the ledgers.                                              *)
(***************************************************************************)
Last == log[Len(log)]

Returned == pc = "idle" /\ Len(log) > 0

\* get_holdings()["stocks"] of the constructed ledger
Stocks == IF ledger = "PortfolioHoldings" THEN p_stocks ELSE a_stocks

\* the bucket a trade belongs to
BucketOf(t) == IF ledger = "PortfolioHoldings" THEN t.account ELSE Group(t)

Present(stocks, b, s) == b \in DOMAIN stocks /\ s \in DOMAIN stocks[b]

RECURSIVE FSumTo(_, _)
FSumTo(fs, n) == IF n = 0 THEN FZero ELSE FAdd(fs[n], FSumTo(fs, n - 1))

FSum(fs) == FSumTo(fs, Len(fs))

\* the unit quantity held for (b, s) in a holdings map
HeldQuantity(stocks, b, s) ==
    IF ~Present(stocks, b, s) THEN FZero
    ELSE IF ledger = "PortfolioHoldings"
         THEN FSum([i \in 1..Len(stocks[b][s]) |-> stocks[b][s][i].unit_quantity])
         ELSE stocks[b][s].unit_quantity

LastIsSell == Returned /\ Last.trade.trade_type = "sell"

LastBucket == BucketOf(Last.trade)

LastSymbol == Last.trade.ric_symbol

\* C1: a sell of more units than are held for its (bucket, symbol) fails with
\* the error "sell more units than owned" and leaves the holdings map as it
\* was before the call, in both ledgers (stated here for a position that holds
\* units; the sell of a symbol that is not held is the subject of C11).
C1_OversellFailsAtomically ==
    (LastIsSell /\ FLt(FZero, HeldQuantity(pre, LastBucket, LastSymbol))
                /\ FLt(HeldQuantity(pre, LastBucket, LastSymbol), Last.trade.unit_quantity))
        => /\ Last.outcome = "ValueError: sell more units than owned"
           /\ Stocks = pre

\* C2: no lot and no aggregate ever holds a negative unit quantity, in the
\* states between the steps of a lot walk as well as between trades.
C2_NeverNegative ==
    \A b \in DOMAIN Stocks : \A s \in DOMAIN Stocks[b] :
        /\ ~FLt(HeldQuantity(Stocks, b, s), FZero)
        /\ ledger = "PortfolioHoldings" =>
              \A i \in 1..Len(p_stocks[b][s]) : ~FLt(p_stocks[b][s][i].unit_quantity, FZero)

\* a lot walk that has consumed a lot and still has units to dispose
C2_Witness ==
    /\ pc = "walk"
    /\ Len(disposed_stocks) > 0
    /\ FLt(FZero, yet_to_dispose)
    /\ Len(HoldingsList) > 0

\* C3: after a successful sell of exactly the quantity held, the symbol is
\* absent from the holdings map, in both ledgers.
C3_ExactSellPrunes ==
    (LastIsSell /\ Last.outcome = "ok"
       /\ HeldQuantity(pre, LastBucket, LastSymbol) = Last.trade.unit_quantity)
        => ~Present(Stocks, LastBucket, LastSymbol)

\* C4: between calls, failed ones included, every bucket of the holdings map
\* has at least one symbol and every symbol in it a positive unit quantity.
C4_NoEmptyEntries ==
    pc = "idle" =>
        \A b \in DOMAIN Stocks :
            /\ DOMAIN Stocks[b] # {}
            /\ \A s \in DOMAIN Stocks[b] : FLt(FZero, HeldQuantity(Stocks, b, s))

\* every call of trade() so far returned normally
LogOk == \A i \in 1..Len(log) : log[i].outcome = "ok"

LogTrades == [i \in 1..Len(log) |-> log[i].trade]

Buckets ==
    IF ledger = "PortfolioHoldings" \/ group_fn = "account" THEN Accounts ELSE {""}

IsFor(e, tt, b, s) ==
    e.trade.trade_type = tt /\ BucketOf(e.trade) = b /\ e.trade.ric_symbol = s

\* what the buys of (b, s) paid for the units, and in fees
BuyCost(b, s) ==
    FSum([i \in 1..Len(log) |->
            IF IsFor(log[i], "buy", b, s)
            THEN FMul(log[i].trade.unit_price.value, log[i].trade.unit_quantity)
            ELSE FZero])

BuyFees(b, s) ==
    FSum([i \in 1..Len(log) |->
            IF IsFor(log[i], "buy", b, s) THEN log[i].trade.total_fees.value ELSE FZero])

\* the acquisition cost, and fees, carried by the disposal records of (b, s)
DisposedCost(b, s) ==
    FSum([i \in 1..Len(log) |->
            IF IsFor(log[i], "sell", b, s)
            THEN LET recs == log[i].disposed.stocks
                 IN  FSum([j \in 1..Len(recs) |->
                        FMul(recs[j].acquisition_unit_price.value, recs[j].unit_quantity)])
            ELSE FZero])

DisposedFees(b, s) ==
    FSum([i \in 1..Len(log) |->
            IF IsFor(log[i], "sell", b, s)
            THEN LET recs == log[i].disposed.stocks
                 IN  FSum([j \in 1..Len(recs) |->
                        FMul(recs[j].acquisition_fees_per_unit.value, recs[j].unit_quantity)])
            ELSE FZero])

\* the cost, and fees, of what is still held
HeldCost(b, s) ==
    IF ~Present(Stocks, b, s) THEN FZero
    ELSE IF ledger = "PortfolioHoldings"
         THEN FSum([i \in 1..Len(p_stocks[b][s]) |->
                FMul(p_stocks[b][s][i].unit_price.value, p_stocks[b][s][i].unit_quantity)])
         ELSE a_stocks[b][s].total_value.value

HeldFees(b, s) ==
    IF ~Present(Stocks, b, s) THEN FZero
    ELSE IF ledger = "PortfolioHoldings"
         THEN FSum([i \in 1..Len(p_stocks[b][s]) |->
                FMul(p_stocks[b][s][i].fees_per_unit.value, p_stocks[b][s][i].unit_quantity)])
         ELSE a_stocks[b][s].total_fees.value

\* C7: after every trade of a run in which no trade failed, for each (bucket,
\* symbol), the acquisition cost carried by the disposal records so far plus
\* the cost still held equals the cost of the buys so far, as exact rationals;
\* likewise for the acquisition fees.
C7_CostBasisConserved ==
    (pc = "idle" /\ LogOk) =>
        \A b \in Buckets : \A s \in Symbols :
            /\ FAdd(DisposedCost(b, s), HeldCost(b, s)) = BuyCost(b, s)
            /\ FAdd(DisposedFees(b, s), HeldFees(b, s)) = BuyFees(b, s)

\* a partial sell that left a position whose cost is not a whole number
C7_Witness ==
    /\ LastIsSell
    /\ LogOk
    /\ Present(Stocks, LastBucket, LastSymbol)
    /\ HeldCost(LastBucket, LastSymbol)[2] # 1
    /\ HeldFees(LastBucket, LastSymbol)[2] # 1

AvgCost(d) == FDiv(d.total_value.value, d.unit_quantity)

AvgFees(d) == FDiv(d.total_fees.value, d.unit_quantity)

ScenarioAvgCost ==
    FDiv(FAdd(FMul(Fraction(32, 1), Fraction(43921, 100)),
              FMul(Fraction(20, 1), Fraction(47803, 100))),
         Fraction(52, 1))

\* C8: in the weighted-average ledger a sell of less than the quantity held
\* leaves total_value / unit_quantity and total_fees / unit_quantity as they
\* were; the sample trades (buy 32 at 439.21, buy 20 at 478.03, sell 22) in the
\* global bucket hold 52 units at (32 x 439.21 + 20 x 478.03) / 52 after the
\* second trade and 30 units at the same average cost after the third.
C8_AverageCostKept ==
    /\ (ledger = "PortfolioHoldingsAvgCost" /\ LastIsSell /\ Last.outcome = "ok"
          /\ Present(a_stocks, LastBucket, LastSymbol))
        => /\ AvgCost(a_stocks[LastBucket][LastSymbol]) = AvgCost(pre[LastBucket][LastSymbol])
           /\ AvgFees(a_stocks[LastBucket][LastSymbol]) = AvgFees(pre[LastBucket][LastSymbol])
    /\ (ledger = "PortfolioHoldingsAvgCost" /\ group_fn = "global"
          /\ LogTrades = <<Sample1, Sample2>>)
        => /\ a_stocks[""]["IVV.AX"].unit_quantity = Fraction(52, 1)
           /\ AvgCost(a_stocks[""]["IVV.AX"]) = ScenarioAvgCost
    /\ (ledger = "PortfolioHoldingsAvgCost" /\ group_fn = "global"
          /\ LogTrades = <<Sample1, Sample2, Sample3>>)
        => /\ a_stocks[""]["IVV.AX"].unit_quantity = Fraction(30, 1)
           /\ AvgCost(a_stocks[""]["IVV.AX"]) = ScenarioAvgCost

\* the three sample trades applied to the global weighted-average ledger
C8_Witness ==
    /\ ledger = "PortfolioHoldingsAvgCost"
    /\ group_fn = "global"
    /\ LogTrades = <<Sample1, Sample2, Sample3>>
    /\ LogOk

\* the lot list of (acct, s) before the latest call, empty when there was none
PreList(acct, s) == IF Present(pre, acct, s) THEN pre[acct][s] ELSE <<>>

\* new is old with lots taken from the end: a prefix of old, whose last lot
\* may hold fewer units than it did
ConsumedFromEnd(old, new) ==
    /\ Len(new) <= Len(old)
    /\ \A i \in 1..Len(new) :
          IF i < Len(new)
          THEN new[i] = old[i]
          ELSE /\ [new[i] EXCEPT !.unit_quantity = old[i].unit_quantity] = old[i]
               /\ FLe(new[i].unit_quantity, old[i].unit_quantity)
               /\ FLt(FZero, new[i].unit_quantity)

\* C9: a sell of the parcel ledger takes lots from the end of the list: during
\* and after the walk the list is a prefix of the list before the sell, with at
\* most its last lot reduced, and no other list has changed; lots (10 at 100)
\* then (5 at 200) and a sell of 3 leave (10 at 100) and (2 at 200).
C9_LotsConsumedNewestFirst ==
    /\ (ledger = "PortfolioHoldings" /\ (pc = "walk" \/ LastIsSell)) =>
          LET t == IF pc = "walk" THEN trade_detail ELSE Last.trade
          IN  /\ ConsumedFromEnd(PreList(t.account, t.ric_symbol),
                                 p_stocks[t.account][t.ric_symbol])
              /\ \A a \in DOMAIN pre : \A s \in DOMAIN pre[a] :
                    (a # t.account \/ s # t.ric_symbol) => p_stocks[a][s] = pre[a][s]
    /\ (ledger = "PortfolioHoldings" /\ pc = "idle"
          /\ LogTrades = <<ExBuy10, ExBuy5, ExSell3>>) =>
          LET list == p_stocks["CommSec ...123"]["IVV.AX"]
          IN  /\ Len(list) = 2
              /\ list[1].unit_quantity = Fraction(10, 1)
              /\ list[1].unit_price = AUD(100, 1)
              /\ list[2].unit_quantity = Fraction(2, 1)
              /\ list[2].unit_price = AUD(200, 1)

\* the two acquisitions and the disposal of 3 applied to the parcel ledger
C9_Witness ==
    /\ ledger = "PortfolioHoldings"
    /\ pc = "idle"
    /\ LogTrades = <<ExBuy10, ExBuy5, ExSell3>>
    /\ LogOk

\* the buys of (b, s) in the log, in the order they were applied
BuysOf(b, s) ==
    LET Test(e) == IsFor(e, "buy", b, s)
        es == SelectSeq(log, Test)
    IN  [i \in 1..Len(es) |-> es[i].trade]

\* the first n calls that concern (b, s) are buys that succeeded
OnlyBuys(b, s, n) ==
    \A i \in 1..n :
        (BucketOf(log[i].trade) = b /\ log[i].trade.ric_symbol = s)
            => (log[i].trade.trade_type = "buy" /\ log[i].outcome = "ok")

\* a fresh ledger after the first n of the buys applied in the order perm
RECURSIVE FoldBuys(_, _, _)
FoldBuys(buys, perm, n) ==
    IF n = 0 THEN EmptyDict
    ELSE ABuyResult(FoldBuys(buys, perm, n - 1), buys[perm[n]]).stocks

SumCost(buys) ==
    FSum([i \in 1..Len(buys) |-> FMul(buys[i].unit_price.value, buys[i].unit_quantity)])

SumQuantity(buys) == FSum([i \in 1..Len(buys) |-> buys[i].unit_quantity])

\* C10: in the weighted-average ledger the aggregate of a (bucket, symbol)
\* after a set of buys is the one every other order of those buys produces,
\* and the acquisition_unit_price of a disposal that follows is the total cost
\* of the buys over their total quantity; buys of 10 at 100 and 5 at 200, in
\* either order, give 2000/15 for a sell of 3.
C10_BuyOrderIrrelevant ==
    /\ (ledger = "PortfolioHoldingsAvgCost" /\ Returned /\ Last.outcome = "ok") =>
          LET b == LastBucket
              s == LastSymbol
              buys == BuysOf(b, s)
          IN  /\ (Last.trade.trade_type = "buy" /\ OnlyBuys(b, s, Len(log))) =>
                    \A perm \in Permutations(1..Len(buys)) :
                        FoldBuys(buys, perm, Len(buys))[b][s] = a_stocks[b][s]
              /\ (Last.trade.trade_type = "sell" /\ OnlyBuys(b, s, Len(log) - 1)) =>
                    /\ \A perm \in Permutations(1..Len(buys)) :
                          Last.disposed.stocks[1].acquisition_unit_price =
                              AcquisitionUnitPrice(FoldBuys(buys, perm, Len(buys))[b][s])
                    /\ Last.disposed.stocks[1].acquisition_unit_price.value =
                          FDiv(SumCost(buys), SumQuantity(buys))
    /\ (ledger = "PortfolioHoldingsAvgCost" /\ pc = "idle"
          /\ LogTrades \in {<<ExBuy10, ExBuy5, ExSell3>>, <<ExBuy5, ExBuy10, ExSell3>>}) =>
          Last.disposed.stocks[1].acquisition_unit_price = AUD(2000, 15)

\* the two acquisitions in the other order, then the disposal of 3
C10_Witness ==
    /\ ledger = "PortfolioHoldingsAvgCost"
    /\ LogTrades = <<ExBuy5, ExBuy10, ExSell3>>
    /\ LogOk

(***************************************************************************)
(* Properties of the store.                                                *)
(***************************************************************************)
\* at least RevisionWindow later dates are stored for the row's key and source
OutsideWindow(table, r) ==
    Cardinality({x.date : x \in {y \in table : /\ y.key = r.key
                                               /\ y.data_source = r.data_source
                                               /\ y.date > r.date}}) >= RevisionWindow

LastTable == IF last_pull.table = "forex_timeseries_daily" THEN forex ELSE store

LastPreTable == IF last_pull.table = "forex_timeseries_daily" THEN pre_store.forex ELSE pre_store.stock

LastDfRow(date) ==
    IF last_pull.table = "forex_timeseries_daily"
    THEN ForexDfRow(last_pull.args.provider, date, last_pull.args.rev)
    ELSE StockDfRow(last_pull.args.provider, date, last_pull.args.rev)

\* C5: an update never changes, in any column, a stored row that has at least
\* RevisionWindow later dates stored for its (symbol or pair, source), whatever
\* the pulled series says for that date; such a row stays as it is for good.
C5_OldRowsNeverChange ==
    [][ /\ \A r \in store : OutsideWindow(store, r) => r \in store'
        /\ \A r \in forex : OutsideWindow(forex, r) => r \in forex' ]_vars

\* an update whose series disagreed with a stored row older than the window
C5_Witness ==
    /\ last_pull.table = "stock_timeseries_daily"
    /\ last_pull.outcome = "ok"
    /\ \E r \in pre_store.stock :
          /\ r.key = last_pull.args.key
          /\ r.data_source = last_pull.args.provider
          /\ OutsideWindow(pre_store.stock, r)
          /\ r.date \in last_pull.args.lo .. last_pull.args.hi
          /\ r.cols # Columns(LastDfRow(r.date))
          /\ r \in store

PrimaryKeyIntact(table) ==
    \A r1 \in table : \A r2 \in table :
        (r1.key = r2.key /\ r1.date = r2.date /\ r1.data_source = r2.data_source) => r1 = r2

\* C6: an update called again with the arguments of the update before it
\* leaves both tables exactly as the first call left them, with one row per
\* primary key.
C6_RepeatedUpdateIsNoOp ==
    repeated =>
        /\ store = pre_store.stock
        /\ forex = pre_store.forex
        /\ PrimaryKeyIntact(store)
        /\ PrimaryKeyIntact(forex)

\* a repeated update over a table that held rows before the first call and
\* whose series covers dates inside the window and new dates
C6_Witness ==
    /\ repeated
    /\ last_pull.outcome = "ok"
    /\ n_updates >= 3
    /\ \E r \in LastTable :
          /\ r.key = last_pull.args.key
          /\ r.data_source = last_pull.args.provider
          /\ r.date \in last_pull.args.lo .. last_pull.args.hi
          /\ ~OutsideWindow(LastTable, r)
          /\ r.cols = Columns(LastDfRow(r.date))
    /\ \E r \in LastTable :
          /\ r.key = last_pull.args.key
          /\ r.data_source = last_pull.args.provider
          /\ r.date \in last_pull.args.lo .. last_pull.args.hi
          /\ r.cols # Columns(LastDfRow(r.date))

(***************************************************************************)
(* Further properties of the ledgers.                                      *)
(***************************************************************************)

\* C11: a sell for a (bucket, symbol) of which nothing is held, never bought
\* or sold down to nothing, fails with the error of a sell of more units than
\* are owned, in both ledgers.
C11_UnheldSellIsOversell ==
    (LastIsSell /\ HeldQuantity(pre, LastBucket, LastSymbol) = FZero)
        => Last.outcome = "ValueError: sell more units than owned"

(***************************************************************************)
(* Further properties of the store.                                        *)
(***************************************************************************)
RowKey(r) == <<r.key, r.date, r.data_source>>

TableKeys(table) == {RowKey(r) : r \in table}

\* every key of old is a key of new, and a row of new that is not a row of old
\* has a new key or the key of a row of old inside the revision window
OnlyInsertsAndWindowOverwrites(old, new) ==
    /\ TableKeys(old) \subseteq TableKeys(new)
    /\ \A r \in new \ old :
          \/ RowKey(r) \notin TableKeys(old)
          \/ \E o \in old : RowKey(o) = RowKey(r) /\ ~OutsideWindow(old, o)

\* C12: no update removes a row: the (symbol, date, source) keys stored after
\* an update include those stored before it, and every row the update wrote
\* is an insert under a new key or an overwrite of a row inside the revision
\* window.
C12_NothingRemoved ==
    [][ /\ OnlyInsertsAndWindowOverwrites(store, store')
        /\ OnlyInsertsAndWindowOverwrites(forex, forex') ]_vars

\* an update that inserted rows under new keys and overwrote a stored row with
\* other values, next to rows it left alone
C12_Witness ==
    /\ last_pull.table # "none"
    /\ last_pull.outcome = "ok"
    /\ \E r \in LastTable : RowKey(r) \notin TableKeys(LastPreTable)
    /\ \E r \in LastTable \ LastPreTable : RowKey(r) \in TableKeys(LastPreTable)
    /\ \E r \in LastTable \cap LastPreTable :
          r.key = last_pull.args.key /\ r.data_source = last_pull.args.provider

\* C13: rows are keyed by (symbol, date, source): an update for one source
\* leaves every row of any other source in the table as it was, and stores a
\* row under its own key for every date it pulled, whatever other sources
\* hold for that symbol and date.
C13_SourcesIndependent ==
    last_pull.table # "none" =>
        /\ \A r \in LastPreTable :
              r.data_source # last_pull.args.provider => r \in LastTable
        /\ last_pull.outcome = "ok" =>
              \A d \in last_pull.args.lo .. last_pull.args.hi :
                  \E r \in LastTable :
                      /\ RowKey(r) = <<last_pull.args.key, d, last_pull.args.provider>>
                      /\ (r \notin LastPreTable => r.cols = Columns(LastDfRow(d)))

\* an update that inserted a row for a symbol and date for which another
\* source already held a row, with other values
C13_Witness ==
    /\ last_pull.table # "none"
    /\ last_pull.outcome = "ok"
    /\ \E r \in LastTable \ LastPreTable : \E o \in LastPreTable :
          /\ r.key = o.key
          /\ r.date = o.date
          /\ r.data_source = last_pull.args.provider
          /\ o.data_source # r.data_source
          /\ o.cols # r.cols
          /\ o \in LastTable

\* the order of the text values of data_source in the primary key index
ProviderOrder == <<"RAADYahooFinance", "YahooFinanceLib">>

ProviderRank(p) == CHOOSE i \in 1..Len(ProviderOrder) : ProviderOrder[i] = p

\* the order of two rows of one symbol in the index on (symbol, date, data_source)
IndexBefore(a, b) ==
    \/ a.date < b.date
    \/ a.date = b.date /\ ProviderRank(a.data_source) <= ProviderRank(b.data_source)

\* _get_data: the SELECT has no ORDER BY; the rows of a symbol come out as the
\* search of the primary key index visits them
RECURSIVE GetData(_)
GetData(rows) ==
    IF rows = {} THEN <<>>
    ELSE LET first == CHOOSE r \in rows : \A o \in rows : IndexBefore(r, o)
         IN  <<first>> \o GetData(rows \ {first})

\* set_index(keys=["date"], verify_integrity=True) raises on a repeated date
IndexHasDuplicates(data) ==
    \E i, j \in 1..Len(data) : i < j /\ data[i].date = data[j].date

\* new_df.index.is_monotonic
IsMonotonic(data) ==
    \A i \in 1..Len(data) - 1 : data[i].date <= data[i + 1].date

\* get_stock_timeseries_daily: one DataFrame per symbol, or the error raised
GetStockTimeseriesDaily(table, symbols) ==
    LET new_df == [s \in symbols |-> GetData({r \in table : r.key = s})]
    IN  IF \E s \in symbols : IndexHasDuplicates(new_df[s])
        THEN [outcome |-> "ValueError: Index has duplicate keys", dfs |-> << >>]
        ELSE IF \E s \in symbols : ~IsMonotonic(new_df[s])
             THEN [outcome |-> "RuntimeError", dfs |-> << >>]
             ELSE [outcome |-> "ok", dfs |-> new_df]

\* C14: in every store state, get_stock_timeseries_daily returns, for each
\* requested symbol, one series that holds every row stored for the symbol,
\* in ascending order of date.
C14_GetReturnsAllRowsSorted ==
    \A symbols \in (SUBSET StockSymbols) \ {{}} :
        LET got == GetStockTimeseriesDaily(store, symbols)
        IN  /\ got.outcome = "ok"
            /\ \A s \in symbols :
                  /\ {got.dfs[s][i] : i \in 1..Len(got.dfs[s])} = {r \in store : r.key = s}
                  /\ \A i \in 1..Len(got.dfs[s]) - 1 :
                        got.dfs[s][i].date <= got.dfs[s][i + 1].date

(***************************************************************************)
(* PortfolioTracker._generate_portfolio_history (portfolio_tracker.py):    *)
(* the generator that feeds a trade history to two weighted-average        *)
(* ledgers and yields one entry per trade.                                 *)
(***************************************************************************)
MaxHistory == 3

\* PortfolioHoldingsAvgCost.trade as the generator calls it: the ledger after
\* the call, the diff it returns, or the error it raises
Trade(fn, trade_date, stocks, t) ==
    IF t.trade_type = "buy"
    THEN LET r == ABuyResultFor(GroupBy(fn, t), stocks, t)
         IN  [outcome |-> r.outcome, stocks |-> r.stocks,
              acquired |-> IF r.outcome = "ok" THEN ABuyAcquiredOn(trade_date, t) ELSE NoDiff,
              disposed |-> IF r.outcome = "ok" THEN ABuyDisposed(t) ELSE NoDiff]
    ELSE LET r == ASellResultFor(GroupBy(fn, t), trade_date, stocks, t)
         IN  [outcome |-> r.outcome, stocks |-> r.stocks,
              acquired |-> IF r.outcome = "ok"
                           THEN [stocks |-> <<>>,
                                 currency |-> <<CurrencyMul(t.unit_price, t.unit_quantity)>>]
                           ELSE NoDiff,
              disposed |-> IF r.outcome = "ok"
                           THEN [stocks |-> r.disposed,
                                 currency |-> IF CurrencyGtZero(t.total_fees)
                                              THEN <<t.total_fees>> ELSE <<>>]
                           ELSE NoDiff]

\* the trades a history is made of: the two acquisitions and the disposal, a
\* sell and a buy in a second account, and a buy of the same symbol priced in USD
HistoryTrades ==
    {ExBuy10, ExBuy5, ExSell3,
     TradeInfo("sell", "Stake ...456", "IVV.AX", Fraction(12, 1), AUD(150, 1), AUD(5, 1)),
     TradeInfo("buy", "Stake ...456", "IVV.AX", Fraction(2, 1), AUD(150, 1), AUD(5, 1)),
     TradeInfo("buy", "Stake ...456", "IVV.AX", Fraction(1, 1),
               Currency("USD", Fraction(100, 1)), Currency("USD", Fraction(1, 1)))}

TradeHistories == UNION {[1..n -> HistoryTrades] : n \in 0..MaxHistory}

\* the ledgers a caller may pass: fresh ones (also the defaults of kwargs.get),
\* or ledgers that hold 10 units already
StartingLedgers ==
    [holdings_account_averages :
        {EmptyDict, ABuyResultFor(GroupBy("account", ExBuy10), EmptyDict, ExBuy10).stocks},
     holdings_global_averages :
        {EmptyDict, ABuyResultFor(GroupBy("global", ExBuy10), EmptyDict, ExBuy10).stocks}]

\* the same object under another name, not a copy
StartingLedgerShared(name, value) == [ref |-> name, value |-> value]

\* lines 324 and 327: deepcopy(kwargs.get(name, ...)), a new object
StartingLedger(name, value) == [ref |-> "new", value |-> value]

\* the ledger itself, not a copy
SnapshotShared(name, value) == [ref |-> name, value |-> value]

\* lines 343 and 348: deepcopy(holdings), a new object
Snapshot(name, value) == [ref |-> "new", value |-> value]

\* the state of the object a reference leads to
Deref(h) ==
    IF h.ref = "holdings_acc_avgs" THEN holdings_acc_avgs.value
    ELSE IF h.ref = "holdings_global_avgs" THEN holdings_global_avgs.value
    ELSE h.value

\* a write to a generator's ledger is a write to the caller's when both are one object
KwargsAfter(acc, global) ==
    [holdings_account_averages |->
        IF holdings_acc_avgs.ref = "holdings_account_averages"
        THEN acc ELSE kwargs.holdings_account_averages,
     holdings_global_averages |->
        IF holdings_global_avgs.ref = "holdings_global_averages"
        THEN global ELSE kwargs.holdings_global_averages]

\* lines 324-328: the first next() runs the body up to the loop
GenStart ==
    /\ gen = "created"
    /\ holdings_acc_avgs' =
          StartingLedger("holdings_account_averages", kwargs.holdings_account_averages)
    /\ holdings_global_avgs' =
          StartingLedger("holdings_global_averages", kwargs.holdings_global_averages)
    /\ gen' = "running"
    /\ UNCHANGED <<call, kwargs, history, first_run, ledgerVars, storeVars, sourceVars, moneyVars,
                   overrideVars>>

\* lines 336-361
Entry(t, acc, global) ==
    [trade_detail |-> t,
     account_averages |->
        [holdings |-> Snapshot("holdings_acc_avgs", acc.stocks),
         disposed_during_this_trade |-> acc.disposed,
         acquired_during_this_trade |-> acc.acquired],
     global_averages |->
        [holdings |-> Snapshot("holdings_global_avgs", global.stocks),
         disposed_during_this_trade |-> global.disposed,
         acquired_during_this_trade |-> global.acquired]]

\* the global ledger traded whether or not the ledger by account raised
GlobalAfterRegardless(acc, global) == global.stocks

\* lines 334-335: holdings_global_avgs.trade is called after
\* holdings_acc_avgs.trade has returned, not when it raised
GlobalAfter(acc, global) ==
    IF acc.outcome # "ok" THEN holdings_global_avgs.value ELSE global.stocks

\* lines 330-362: one turn of the loop, up to the yield or to the exception
GenNext ==
    /\ gen = "running"
    /\ Len(history) < Len(call.trade_history)
    /\ LET i == Len(history) + 1
           t == call.trade_history[i]
           acc == Trade("account", i, holdings_acc_avgs.value, t)
           global == Trade("global", i, holdings_global_avgs.value, t)
       IN  /\ holdings_acc_avgs' = [holdings_acc_avgs EXCEPT !.value = acc.stocks]
           /\ holdings_global_avgs' =
                 [holdings_global_avgs EXCEPT !.value = GlobalAfter(acc, global)]
           /\ kwargs' = KwargsAfter(acc.stocks, GlobalAfter(acc, global))
           /\ IF acc.outcome # "ok" \/ global.outcome # "ok"
              THEN gen' = "raised" /\ UNCHANGED history
              ELSE history' = Append(history, Entry(t, acc, global)) /\ UNCHANGED gen
    /\ UNCHANGED <<call, first_run, ledgerVars, storeVars, sourceVars, moneyVars,
                   overrideVars>>

\* line 363: the trade history is exhausted
GenReturn ==
    /\ gen = "running"
    /\ Len(history) = Len(call.trade_history)
    /\ gen' = "returned"
    /\ UNCHANGED <<call, kwargs, holdings_acc_avgs, holdings_global_avgs, history,
                   first_run, ledgerVars, storeVars, sourceVars, moneyVars,
                   overrideVars>>

\* an entry as its reader sees it
EntryView(e) ==
    [e EXCEPT !.account_averages.holdings = Deref(@),
              !.global_averages.holdings = Deref(@)]

HistoryView == [i \in 1..Len(history) |-> EntryView(history[i])]

\* the caller calls the generator function again, with the same arguments
CallAgain ==
    /\ gen \in {"returned", "raised"}
    /\ first_run = NoRun
    /\ first_run' = [gen |-> gen, history |-> HistoryView]
    /\ gen' = "created"
    /\ history' = <<>>
    /\ holdings_acc_avgs' = NoObject
    /\ holdings_global_avgs' = NoObject
    /\ UNCHANGED <<call, kwargs, ledgerVars, storeVars, sourceVars, moneyVars,
                   overrideVars>>

InitHistory ==
    /\ LedgerIdle
    /\ StoreIdle
    /\ call \in [trade_history : TradeHistories, kwargs : StartingLedgers]
    /\ kwargs = call.kwargs
    /\ holdings_acc_avgs = NoObject
    /\ holdings_global_avgs = NoObject
    /\ history = <<>>
    /\ gen = "created"
    /\ first_run = NoRun
    /\ SourceIdle
    /\ MoneyIdle
    /\ OverridesIdle

NextHistory ==
    \/ GenStart
    \/ GenNext
    \/ GenReturn
    \/ CallAgain

SpecHistory == InitHistory /\ [][NextHistory]_vars

TypeOKHistory ==
    /\ gen \in {"created", "running", "returned", "raised"}
    /\ Len(history) <= MaxHistory

(***************************************************************************)
(* Properties of the history generator.                                    *)
(***************************************************************************)
\* the ledger of grouping fn after the first n trades, from the ledger start
RECURSIVE AfterTrades(_, _, _, _)
AfterTrades(fn, start, trades, n) ==
    IF n = 0 THEN start
    ELSE Trade(fn, n, AfterTrades(fn, start, trades, n - 1), trades[n]).stocks

\* entry e is what trade number i of the history yields for the ledger of grouping fn
EntryMatches(fn, start, part, i) ==
    LET r == Trade(fn, i, AfterTrades(fn, start, call.trade_history, i - 1),
                   call.trade_history[i])
    IN  /\ Deref(part.holdings) = r.stocks
        /\ part.disposed_during_this_trade = r.disposed
        /\ part.acquired_during_this_trade = r.acquired

\* C15: the generator yields one entry per trade, in the order of the trades:
\* entry i carries trade i, the diff trade i produced and the ledgers as they
\* were after trades 1..i, and keeps showing them while later trades are
\* processed; a run that returns has yielded as many entries as trades.
C15_OneEntryPerTrade ==
    /\ Len(history) <= Len(call.trade_history)
    /\ gen = "returned" => Len(history) = Len(call.trade_history)
    /\ \A i \in 1..Len(history) :
          /\ history[i].trade_detail = call.trade_history[i]
          /\ EntryMatches("account", call.kwargs.holdings_account_averages,
                          history[i].account_averages, i)
          /\ EntryMatches("global", call.kwargs.holdings_global_averages,
                          history[i].global_averages, i)

\* a run over three trades that returned, the last a disposal, the ledger by
\* account no longer what the first entry shows
C15_Witness ==
    /\ gen = "returned"
    /\ Len(history) >= 3
    /\ Deref(history[1].account_averages.holdings) # holdings_acc_avgs.value
    /\ Deref(history[1].global_averages.holdings) # Deref(history[2].global_averages.holdings)
    /\ history[3].account_averages.disposed_during_this_trade.stocks # <<>>

\* C16: the generator never changes the starting ledgers of its caller, and
\* a second run over the same trade history and starting ledgers yields the
\* entries of the first run and ends as the first run ended.
C16_RunsRepeatable ==
    /\ kwargs = call.kwargs
    /\ (first_run # NoRun /\ gen \in {"returned", "raised"}) =>
          /\ gen = first_run.gen
          /\ HistoryView = first_run.history

\* a second run that returned, over two trades or more, from a starting
\* ledger that held units and that the run's own ledger has moved away from
C16_Witness ==
    /\ first_run # NoRun
    /\ gen = "returned"
    /\ Len(history) >= 2
    /\ kwargs.holdings_account_averages # EmptyDict
    /\ holdings_acc_avgs.value # kwargs.holdings_account_averages
    /\ holdings_global_avgs.value # kwargs.holdings_global_averages

(***************************************************************************)
(* get_trades (user_data_providers/trades_data_provider.py): the trade     *)
(* source that reads the trades file.                                      *)
(***************************************************************************)
MaxRows == 3

RowDates == 1..3

\* the rows of a trades file: the columns that vary are the date, the trade
\* type and the unit quantity
FileRows == [trade_date : RowDates, trade_type : {"buy", "sell"}, unit_quantity : {0, 1}]

TradesFiles == UNION {[1..n -> FileRows] : n \in 0..MaxRows}

AllowedTradeTypeStrings == {"buy", "sell"}

\* the fields of the namedtuple TradeInfo
TradeInfoFields ==
    {"comment", "trade_date", "account", "ric_symbol", "trade_type",
     "unit_quantity", "unit_price", "total_fees"}

\* lines 222-236: the keyword arguments get_trades builds a TradeInfo from
RowKeywords(row) ==
    [comment |-> "",
     trade_date |-> row.trade_date,
     account |-> "CommSec ...123",
     ric_symbol |-> "IVV.AX",
     trade_type |-> row.trade_type,
     unit_quantity |-> Fraction(row.unit_quantity, 1),
     unit_price |-> Fraction(100, 1),
     unit_currency |-> "AUD",
     fees |-> Fraction(5, 1),
     fees_currency |-> "AUD"]

\* namedtuple.__new__: the keywords have to be the fields
TradeInfoNew(kw) ==
    IF DOMAIN kw = TradeInfoFields
    THEN [outcome |-> "ok", t |-> kw]
    ELSE [outcome |-> "TypeError: unexpected keyword argument", t |-> << >>]

\* lines 171-236: one turn of the loop over the rows
RowResult(row) ==
    IF row.trade_type \notin AllowedTradeTypeStrings
    THEN [outcome |-> "ValueError: Trade types must be either 'buy' or 'sell'.", t |-> << >>]
    ELSE IF row.unit_quantity <= 0
    THEN [outcome |-> "ValueError: Unit quantity must be greater than zero.", t |-> << >>]
    ELSE TradeInfoNew(RowKeywords(row))

\* the loop over the first n rows: the list built, or the first error raised
RECURSIVE ReadRows(_, _)
ReadRows(rows, n) ==
    IF n = 0 THEN [outcome |-> "ok", ret |-> <<>>]
    ELSE LET done == ReadRows(rows, n - 1)
             r == RowResult(rows[n])
         IN  IF done.outcome # "ok" THEN done
             ELSE IF r.outcome # "ok" THEN [outcome |-> r.outcome, ret |-> <<>>]
             ELSE [outcome |-> "ok", ret |-> Append(done.ret, r.t)]

\* sorted(ret, key=lambda x: x.trade_date): a new list, the argument is left as it is
RECURSIVE SortedByTradeDate(_)
SortedByTradeDate(ret) ==
    IF ret = <<>> THEN <<>>
    ELSE LET i == CHOOSE k \in 1..Len(ret) :
                    /\ \A j \in 1..Len(ret) : ret[k].trade_date <= ret[j].trade_date
                    /\ \A j \in 1..(k - 1) : ret[j].trade_date # ret[k].trade_date
         IN  <<ret[i]>> \o SortedByTradeDate(SubSeq(ret, 1, i - 1) \o SubSeq(ret, i + 1, Len(ret)))

\* line 239: "not" of a list is true when the list is empty
NotList(list) == Len(list) = 0

\* lines 170-241
GetTradesResult(rows) ==
    LET r == ReadRows(rows, Len(rows))
    IN  IF r.outcome # "ok" THEN r
        ELSE IF NotList(SortedByTradeDate(r.ret))
             THEN [outcome |-> "ValueError: Trades must be in chronological order.", ret |-> <<>>]
             ELSE r

GetTrades ==
    /\ trades_ret = NoCallYet
    /\ trades_ret' = GetTradesResult(trades_file)
    /\ UNCHANGED <<trades_file, ledgerVars, storeVars, historyVars, moneyVars,
                   overrideVars>>

InitSource ==
    /\ LedgerIdle
    /\ StoreIdle
    /\ HistoryIdle
    /\ MoneyIdle
    /\ OverridesIdle
    /\ trades_file \in TradesFiles
    /\ trades_ret = NoCallYet

NextSource == GetTrades

SpecSource == InitSource /\ [][NextSource]_vars

TypeOKSource == Len(trades_file) <= MaxRows

NonDecreasing(rows) ==
    \A i \in 1..Len(rows) - 1 : rows[i].trade_date <= rows[i + 1].trade_date

RowsValid(rows) ==
    \A i \in 1..Len(rows) :
        rows[i].trade_type \in AllowedTradeTypeStrings /\ rows[i].unit_quantity > 0

\* C17: get_trades raises an error for a file whose trade dates are not in
\* non-decreasing order, and returns the trades of a file that is in
\* non-decreasing order, in the order of the file.
C17_OrderEnforced ==
    trades_ret # NoCallYet =>
        /\ ~NonDecreasing(trades_file) => trades_ret.outcome # "ok"
        /\ (NonDecreasing(trades_file) /\ RowsValid(trades_file)) =>
              /\ trades_ret.outcome = "ok"
              /\ Len(trades_ret.ret) = Len(trades_file)
              /\ \A i \in 1..Len(trades_file) :
                    trades_ret.ret[i].trade_date = trades_file[i].trade_date

(***************************************************************************)
(* The operations of Currency (structs/currency.py) on two objects.        *)
(***************************************************************************)
SymbolInputs == {"AUD", "USD", " AUD ", "", "  "}

MoneyValues == {Fraction(0, 1), Fraction(1, 1), Fraction(5, 2), Fraction(-3, 1)}

ExchangeRates == {Fraction(1, 1), Fraction(13, 10), Fraction(3, 4)}

Scalars == {Fraction(2, 1), Fraction(-1, 2)}

CalcMethods == {"__add__", "__sub__"}

ComparisonMethods == {"__lt__", "__le__", "__eq__", "__ne__", "__gt__", "__ge__"}

\* getattr(self._value, method)(other._value) on Fractions
FractionMethod(method, a, b) ==
    CASE method = "__add__" -> FAdd(a, b)
      [] method = "__sub__" -> FSub(a, b)
      [] method = "__lt__" -> FLt(a, b)
      [] method = "__le__" -> FLe(a, b)
      [] method = "__eq__" -> a = b
      [] method = "__ne__" -> a # b
      [] method = "__gt__" -> FLt(b, a)
      [] method = "__ge__" -> FLe(b, a)

\* new = self: the object itself under another name
CopyShared(name, obj) == [ref |-> name, obj |-> obj]

\* new = copy(self): a new object with the slots of self
Copy(name, obj) == [ref |-> "new", obj |-> obj]

\* money_self after new was assigned to: self changes when new is self
SelfAfter(new, result) == IF new.ref = "self" THEN result ELSE money_self

OpRaised(op, method, arg, outcome) ==
    [op |-> op, method |-> method, arg |-> arg, self |-> money_self, other |-> money_other,
     outcome |-> outcome, result |-> "none"]

OpReturned(op, method, arg, result) ==
    [op |-> op, method |-> method, arg |-> arg, self |-> money_self, other |-> money_other,
     outcome |-> "ok", result |-> result]

\* Currency(symbol, value): the new object becomes the right operand
CurrencyInit(symbol, value) ==
    /\ money_op' = [op |-> "__init__", method |-> "__init__",
                    arg |-> [symbol |-> symbol, value |-> value],
                    self |-> money_self, other |-> money_other,
                    outcome |-> "ok", result |-> Currency(symbol, value)]
    /\ money_other' = Currency(symbol, value)
    /\ UNCHANGED <<money_self, ledgerVars, storeVars, historyVars, sourceVars,
                   overrideVars>>

\* _binary_magic_calc_op, mode "only_between_currencies": self + other, self - other
BinaryCalc(method) ==
    /\ IF ErrIfSameSymbol(money_self, money_other)
       THEN /\ money_op' = OpRaised("calc", method, "none", "ValueError: mismatched currencies")
            /\ UNCHANGED money_self
       ELSE LET new == Copy("self", money_self)
                result == [new.obj EXCEPT
                              !.value = FractionMethod(method, money_self.value, money_other.value)]
            IN  /\ money_op' = OpReturned("calc", method, "none", result)
                /\ money_self' = SelfAfter(new, result)
    /\ UNCHANGED <<money_other, ledgerVars, storeVars, historyVars, sourceVars,
                   overrideVars>>

\* _binary_magic_comparison_op with a Currency on the right
Comparison(method) ==
    /\ money_op' =
          IF ErrIfSameSymbol(money_self, money_other)
          THEN OpRaised("compare", method, "none", "ValueError: mismatched currencies")
          ELSE OpReturned("compare", method, "none",
                         FractionMethod(method, money_self.value, money_other.value))
    /\ UNCHANGED <<money_self, money_other, ledgerVars, storeVars, historyVars, sourceVars,
                   overrideVars>>

\* _binary_magic_division_op with a Currency on the right: self / other
Division ==
    /\ money_op' =
          IF ErrIfSameSymbol(money_self, money_other)
          THEN OpRaised("divide", "__truediv__", "none", "ValueError: mismatched currencies")
          ELSE IF money_other.value = FZero
          THEN OpRaised("divide", "__truediv__", "none", "ZeroDivisionError")
          ELSE OpReturned("divide", "__truediv__", "none",
                         FDiv(money_self.value, money_other.value))
    /\ UNCHANGED <<money_self, money_other, ledgerVars, storeVars, historyVars, sourceVars,
                   overrideVars>>

\* _binary_magic_calc_op, mode "only_with_dimensionless": self * x
Scale(x) ==
    /\ LET new == Copy("self", money_self)
           result == [new.obj EXCEPT !.value = FMul(money_self.value, x)]
       IN  /\ money_op' = OpReturned("scale", "__mul__", x, result)
           /\ money_self' = SelfAfter(new, result)
    /\ UNCHANGED <<money_other, ledgerVars, storeVars, historyVars, sourceVars,
                   overrideVars>>

\* _unary_magic_calc_op: -self
Negate ==
    /\ LET new == Copy("self", money_self)
           result == [new.obj EXCEPT !.value = FNeg(money_self.value)]
       IN  /\ money_op' = OpReturned("negate", "__neg__", "none", result)
           /\ money_self' = SelfAfter(new, result)
    /\ UNCHANGED <<money_other, ledgerVars, storeVars, historyVars, sourceVars,
                   overrideVars>>

\* convert: the new symbol is stored as given
Convert(new_symbol, exchange_rate) ==
    /\ LET new == Copy("self", money_self)
           new1 == [new.obj EXCEPT !.value = FMul(new.obj.value, exchange_rate)]
           result == [new1 EXCEPT !.symbol = new_symbol]
       IN  /\ money_op' = OpReturned("convert", "convert",
                                   [new_symbol |-> new_symbol, exchange_rate |-> exchange_rate],
                                   result)
           /\ money_self' = SelfAfter(new, result)
    /\ UNCHANGED <<money_other, ledgerVars, storeVars, historyVars, sourceVars,
                   overrideVars>>

InitMoney ==
    /\ LedgerIdle
    /\ StoreIdle
    /\ HistoryIdle
    /\ SourceIdle
    /\ OverridesIdle
    /\ money_self \in {Currency(s, v) : s \in {"AUD", "USD"}, v \in MoneyValues}
    /\ money_other \in {Currency(s, v) : s \in {"AUD", "USD"}, v \in MoneyValues}
    /\ money_op = NoOperation

NextMoney ==
    \/ \E symbol \in SymbolInputs, value \in MoneyValues : CurrencyInit(symbol, value)
    \/ \E method \in CalcMethods : BinaryCalc(method)
    \/ \E method \in ComparisonMethods : Comparison(method)
    \/ Division
    \/ \E x \in Scalars : Scale(x)
    \/ Negate
    \/ \E s \in {"AUD", "USD"}, rate \in ExchangeRates : Convert(s, rate)

SpecMoney == InitMoney /\ [][NextMoney]_vars

TypeOKMoney == money_self.value[2] > 0 /\ money_other.value[2] > 0

(***************************************************************************)
(* Properties of Currency.                                                 *)
(***************************************************************************)
\* C18: self + other, self - other, the six comparisons and self / other on
\* two Currency objects raise the mismatched-currencies error and return
\* nothing when the symbols differ; when the symbols are equal they return the
\* result of the operation on the two exact amounts: a Currency of that
\* symbol for + and -, a truth value for a comparison, a bare Fraction for /.
C18_SameSymbolRequired ==
    money_op.op \in {"calc", "compare", "divide"} =>
        LET a == money_op.self
            b == money_op.other
            m == money_op.method
        IN  IF a.symbol # b.symbol
            THEN /\ money_op.outcome = "ValueError: mismatched currencies"
                 /\ money_op.result = "none"
            ELSE /\ money_op.op = "calc" =>
                        /\ money_op.outcome = "ok"
                        /\ money_op.result.symbol = a.symbol
                        /\ m = "__add__" => money_op.result.value = FAdd(a.value, b.value)
                        /\ m = "__sub__" => money_op.result.value = FSub(a.value, b.value)
                 /\ money_op.op = "compare" =>
                        /\ money_op.outcome = "ok"
                        /\ m = "__lt__" => money_op.result = FLt(a.value, b.value)
                        /\ m = "__le__" => money_op.result = FLe(a.value, b.value)
                        /\ m = "__eq__" => money_op.result = (a.value = b.value)
                        /\ m = "__ne__" => money_op.result = (a.value # b.value)
                        /\ m = "__gt__" => money_op.result = FLt(b.value, a.value)
                        /\ m = "__ge__" => money_op.result = FLe(b.value, a.value)
                 /\ (money_op.op = "divide" /\ b.value # FZero) =>
                        /\ money_op.outcome = "ok"
                        /\ FMul(money_op.result, b.value) = a.value

\* an == between an AUD and a USD amount, which raised
C18_Witness ==
    /\ money_op.op = "compare"
    /\ money_op.method = "__eq__"
    /\ money_op.self.symbol = "AUD"
    /\ money_op.other.symbol = "USD"
    /\ money_op.outcome = "ValueError: mismatched currencies"

\* C19: convert returns a Currency whose amount is the amount of the object
\* times the rate and whose symbol is the new symbol; no operation (add,
\* subtract, compare, divide, scale, negate, convert) changes the amount or
\* the symbol of the objects it was applied to.
C19_OperandsUnchanged ==
    money_op.op \in {"calc", "compare", "divide", "scale", "negate", "convert"} =>
        /\ money_self = money_op.self
        /\ money_other = money_op.other
        /\ money_op.op = "convert" =>
              /\ money_op.outcome = "ok"
              /\ money_op.result.symbol = money_op.arg.new_symbol
              /\ money_op.result.value = FMul(money_op.self.value, money_op.arg.exchange_rate)

\* a conversion of a non-zero amount into another currency at a rate other than 1
C19_Witness ==
    /\ money_op.op = "convert"
    /\ money_op.self.value # FZero
    /\ money_op.arg.new_symbol # money_op.self.symbol
    /\ money_op.arg.exchange_rate # Fraction(1, 1)
    /\ money_op.result # money_self

\* C20: the constructor raises an error for a symbol that is empty or only
\* whitespace, and no Currency object has an empty symbol.
C20_SymbolNonEmpty ==
    /\ (money_op.op = "__init__" /\ Strip(money_op.arg.symbol) = "") => money_op.outcome # "ok"
    /\ money_self.symbol # ""
    /\ money_other.symbol # ""

(***************************************************************************)
(* Properties of one update of the store: inserts and overwrites.          *)
(***************************************************************************)
\* the row stored in the table under (key, date, provider) of the last update
StoredFor(table, date) ==
    {r \in table : RowKey(r) = <<last_pull.args.key, date, last_pull.args.provider>>}

PulledDates == last_pull.args.lo .. last_pull.args.hi

\* C21: after an update that returned, every pulled date has a stored row for
\* the (symbol or pair, source) of the call, and every pulled date that had no
\* stored row for it before the call holds exactly the pulled values, dates
\* older than every date stored before included.
C21_MissingDatesInserted ==
    (last_pull.table # "none" /\ last_pull.outcome = "ok") =>
        \A d \in PulledDates :
            /\ StoredFor(LastTable, d) # {}
            /\ StoredFor(LastPreTable, d) = {} =>
                  \A r \in StoredFor(LastTable, d) : r.cols = Columns(LastDfRow(d))

\* an update that inserted a date older than every date stored before it for
\* the symbol and source, and a date newer than all of them
C21_Witness ==
    /\ last_pull.table # "none"
    /\ last_pull.outcome = "ok"
    /\ \E o \in LastPreTable :
          o.key = last_pull.args.key /\ o.data_source = last_pull.args.provider
    /\ \E d \in PulledDates :
          /\ StoredFor(LastPreTable, d) = {}
          /\ \A o \in LastPreTable :
                (o.key = last_pull.args.key /\ o.data_source = last_pull.args.provider)
                    => d < o.date
          /\ \E r \in StoredFor(LastTable, d) : r.cols = Columns(LastDfRow(d))
    /\ \E r \in LastTable :
          r.key = last_pull.args.key /\ r.data_source # last_pull.args.provider

\* the dates stored before the last update for its (key, provider)
StoredBefore ==
    {r.date : r \in {x \in LastPreTable : /\ x.key = last_pull.args.key
                                          /\ x.data_source = last_pull.args.provider}}

\* date is one of the k most recent of the dates
AmongMostRecent(date, dates, k) ==
    date \in dates /\ Cardinality({e \in dates : e > date}) < k

\* C22: after an update that returned, each of the RevisionWindow most recent
\* dates stored before the call for the (symbol or pair, source) that is also
\* a pulled date holds exactly the pulled values; RevisionWindow is between 3
\* and 5 and counts stored dates, not calendar days.
C22_WindowOverwritten ==
    /\ RevisionWindow \in 3..5
    /\ (last_pull.table # "none" /\ last_pull.outcome = "ok") =>
          \A d \in PulledDates :
              AmongMostRecent(d, StoredBefore, RevisionWindow) =>
                  /\ StoredFor(LastTable, d) # {}
                  /\ \A r \in StoredFor(LastTable, d) : r.cols = Columns(LastDfRow(d))

\* an update that overwrote, with other values, a stored date more than
\* RevisionWindow calendar days before the newest stored date, and the second
\* most recent stored date
C22_Witness ==
    /\ last_pull.table # "none"
    /\ last_pull.outcome = "ok"
    /\ \E d \in PulledDates :
          /\ AmongMostRecent(d, StoredBefore, RevisionWindow)
          /\ \E e \in StoredBefore : e - d > RevisionWindow
          /\ \E o \in StoredFor(LastPreTable, d) : o.cols # Columns(LastDfRow(d))
          /\ \E r \in StoredFor(LastTable, d) : r.cols = Columns(LastDfRow(d))
    /\ \E d \in PulledDates :
          /\ Cardinality({e \in StoredBefore : e > d}) = 1
          /\ \E o \in StoredFor(LastPreTable, d) : o.cols # Columns(LastDfRow(d))
          /\ \E r \in StoredFor(LastTable, d) : r.cols = Columns(LastDfRow(d))

\* C30: an update is all or nothing: when the call raises partway through its
\* overwrites and inserts, both tables are as they were before the call; a
\* table changes only in a call that returns.
C30_UpdateAllOrNothing ==
    (last_pull.table # "none" /\ last_pull.outcome # "ok") =>
        /\ store = pre_store.stock
        /\ forex = pre_store.forex

\* an update that raised on the type checks of a row after it had overwritten
\* a stored row with other values and inserted a missing date
C30_Witness ==
    /\ last_pull.table # "none"
    /\ last_pull.outcome = "AssertionError"
    /\ \E d \in PulledDates :
          /\ d < MalformedDate
          /\ AmongMostRecent(d, StoredBefore, RevisionWindow)
          /\ \E o \in StoredFor(LastPreTable, d) :
                o.cols # Columns(LastDfRow(d)) /\ o \in LastTable
    /\ \E d \in PulledDates :
          /\ d < MalformedDate
          /\ StoredFor(LastPreTable, d) = {}
          /\ StoredFor(LastTable, d) = {}

(***************************************************************************)
(* Properties of the TradeDiff a trade returns.                            *)
(***************************************************************************)
LastIsBuy == Len(log) > 0 /\ Last.trade.trade_type = "buy"

\* unit_price x unit_quantity of a trade
GrossValue(t) == CurrencyMul(t.unit_price, t.unit_quantity)

\* C23: for a buy that returned, in both ledgers, the disposed cash leg holds
\* the cash spent (unit_price x unit_quantity) and the fees: one entry equal to
\* their sum when the two share a currency, two separate entries when they do
\* not; the acquired cash leg is empty.
C23_BuyCashLegs ==
    (LastIsBuy /\ Last.outcome = "ok") =>
        LET a == GrossValue(Last.trade)
            b == Last.trade.total_fees
            cash == Last.disposed.currency
        IN  /\ Last.acquired.currency = <<>>
            /\ IF a.symbol = b.symbol
               THEN cash = <<CurrencyAdd(a, b)>>
               ELSE Len(cash) = 2 /\ {cash[1], cash[2]} = {a, b}

\* C24: for a sell that returned, in both ledgers, the acquired cash leg holds
\* the gross proceeds unit_price x unit_quantity, not reduced by fees, and the
\* disposed cash leg holds the fees.
C24_SellCashLegs ==
    (LastIsSell /\ Last.outcome = "ok") =>
        LET a == GrossValue(Last.trade)
            b == Last.trade.total_fees
        IN  /\ Last.acquired.currency = <<a>>
            /\ \/ Last.disposed.currency = <<b>>
               \/ ~CurrencyGtZero(b) /\ Last.disposed.currency = <<>>

\* the lots of old that a sell consumed, whole or in part, leaving new
LotsTouched(old, new) ==
    {i \in 1..Len(old) : i > Len(new) \/ new[i] # old[i]}

\* the units a sell took from lot i of old
UnitsTaken(old, new, i) ==
    IF i > Len(new) THEN old[i].unit_quantity
    ELSE FSub(old[i].unit_quantity, new[i].unit_quantity)

\* C25: for a sell that returned, the unit quantities of the disposal records
\* sum to the trade's unit_quantity, and every record carries
\* disposal_fees_per_unit = total_fees / unit_quantity and the trade's unit
\* price; the weighted-average ledger emits one record; the parcel ledger emits
\* one record per lot consumed whole or in part, newest lot first, with the
\* lot's own acquisition date, price and fees per unit and the units taken
\* from it.
C25_DisposalRecords ==
    (LastIsSell /\ Last.outcome = "ok") =>
        LET t == Last.trade
            recs == Last.disposed.stocks
        IN  /\ FSum([i \in 1..Len(recs) |-> recs[i].unit_quantity]) = t.unit_quantity
            /\ \A i \in 1..Len(recs) :
                  /\ recs[i].disposal_fees_per_unit = CurrencyDiv(t.total_fees, t.unit_quantity)
                  /\ recs[i].disposal_unit_price = t.unit_price
            /\ ledger = "PortfolioHoldingsAvgCost" => Len(recs) = 1
            /\ ledger = "PortfolioHoldings" =>
                  LET old == PreList(t.account, t.ric_symbol)
                      new == p_stocks[t.account][t.ric_symbol]
                  IN  /\ Len(recs) = Cardinality(LotsTouched(old, new))
                      /\ \A i \in 1..Len(recs) :
                            LET k == Len(old) - i + 1
                            IN  /\ k \in LotsTouched(old, new)
                                /\ recs[i].acquired_on = old[k].acquired_on
                                /\ recs[i].acquisition_unit_price = old[k].unit_price
                                /\ recs[i].acquisition_fees_per_unit = old[k].fees_per_unit
                                /\ recs[i].unit_quantity = UnitsTaken(old, new, k)

\* the sample trades on the parcel ledger: the sell of 22 takes the lot of 20
\* whole and 2 units of the lot of 32, at different acquisition prices
C25_Witness ==
    /\ ledger = "PortfolioHoldings"
    /\ pc = "idle"
    /\ LogTrades = <<Sample1, Sample2, Sample3>>
    /\ LogOk
    /\ Len(Last.disposed.stocks) = 2
    /\ Last.disposed.stocks[1].acquisition_unit_price
          # Last.disposed.stocks[2].acquisition_unit_price

(***************************************************************************)
(* Properties of trades in a second currency.                              *)
(***************************************************************************)
\* the price currency and the fee currency of the position held in stocks for
\* (b, s): those of the aggregate, or of the lots of the list
HeldCurrencies(stocks, b, s) ==
    IF ~Present(stocks, b, s) THEN {}
    ELSE IF ledger = "PortfolioHoldings"
         THEN {<<stocks[b][s][i].unit_price.symbol, stocks[b][s][i].fees_per_unit.symbol>> :
                  i \in 1..Len(stocks[b][s])}
         ELSE {<<stocks[b][s].total_value.symbol, stocks[b][s].total_fees.symbol>>}

TradeCurrencies(t) == <<t.unit_price.symbol, t.total_fees.symbol>>

\* the buy is priced, or charged, in another currency than the position held
MismatchesHeld(stocks, t) ==
    /\ HeldCurrencies(stocks, BucketOf(t), t.ric_symbol) # {}
    /\ TradeCurrencies(t) \notin HeldCurrencies(stocks, BucketOf(t), t.ric_symbol)

\* C27: a buy whose price or fee currency differs from that of the position
\* held for its (bucket, symbol) fails at the time of the trade, in both
\* ledgers, and no ledger state holds two currencies for one (bucket, symbol).
C27_MixedCurrencyBuyFails ==
    /\ (LastIsBuy /\ pc = "idle" /\ MismatchesHeld(pre, Last.trade)) => Last.outcome # "ok"
    /\ \A b \in DOMAIN Stocks : \A s \in DOMAIN Stocks[b] :
          Cardinality(HeldCurrencies(Stocks, b, s)) <= 1

\* C28: a buy that fails on a currency mismatch with the held position, in the
\* price currency or in the fee currency alone, leaves the weighted-average
\* ledger as it was before the call.
C28_FailedBuyLeavesLedger ==
    (ledger = "PortfolioHoldingsAvgCost" /\ LastIsBuy /\ Last.outcome # "ok") =>
        a_stocks = pre

(***************************************************************************)
(* The two ledgers of the history generator, side by side.                 *)
(***************************************************************************)
\* the units of symbol s held in group g of a weighted-average ledger
UnitsHeld(stocks, g, s) ==
    IF g \in DOMAIN stocks /\ s \in DOMAIN stocks[g] THEN stocks[g][s].unit_quantity ELSE FZero

RECURSIVE UnitsHeldOver(_, _, _)
UnitsHeldOver(stocks, groups, s) ==
    IF groups = {} THEN FZero
    ELSE LET g == CHOOSE x \in groups : TRUE
         IN  FAdd(UnitsHeld(stocks, g, s), UnitsHeldOver(stocks, groups \ {g}, s))

\* the global ledger holds, of every symbol, what the accounts hold together
LedgersAgree(acc, global) ==
    /\ DOMAIN global \subseteq {""}
    /\ \A s \in Symbols :
          UnitsHeld(global, "", s) = UnitsHeldOver(acc, DOMAIN acc, s)

\* the trade that raised in the run, and the ledgers as they were before it
RaisedAt == Len(history) + 1

AccBeforeRaise ==
    AfterTrades("account", call.kwargs.holdings_account_averages,
                call.trade_history, RaisedAt - 1)

GlobalBeforeRaise ==
    AfterTrades("global", call.kwargs.holdings_global_averages,
                call.trade_history, RaisedAt - 1)

AccRaised ==
    /\ gen = "raised"
    /\ Trade("account", RaisedAt, AccBeforeRaise, call.trade_history[RaisedAt]).outcome # "ok"

\* C29: the generator keeps its two ledgers in step: started from ledgers that
\* agree (the fresh ledgers of the default, or ledgers holding the same
\* units), every entry it yields shows a global ledger that holds, of every
\* symbol, the sum of what the ledger by account holds over the accounts; and
\* when a trade raises in the ledger by account, the global ledger is as it
\* was before that trade.
C29_LedgersInStep ==
    /\ LedgersAgree(call.kwargs.holdings_account_averages,
                    call.kwargs.holdings_global_averages) =>
          \A i \in 1..Len(history) :
              LedgersAgree(Deref(history[i].account_averages.holdings),
                           Deref(history[i].global_averages.holdings))
    /\ AccRaised => holdings_global_avgs.value = GlobalBeforeRaise

\* a run that yielded an entry in which two accounts hold the same symbol, and
\* then raised in the ledger by account on a sell that the global ledger
\* could have made
C29_Witness ==
    /\ AccRaised
    /\ LedgersAgree(call.kwargs.holdings_account_averages,
                    call.kwargs.holdings_global_averages)
    /\ \E i \in 1..Len(history) :
          LET acc == Deref(history[i].account_averages.holdings)
          IN  \E s \in Symbols :
                 Cardinality({g \in DOMAIN acc : UnitsHeld(acc, g, s) # FZero}) = 2
    /\ LET r == Trade("global", RaisedAt, GlobalBeforeRaise, call.trade_history[RaisedAt])
       IN  r.outcome = "ok" /\ r.stocks # GlobalBeforeRaise

(***************************************************************************)
(* MarketDataAggregator._stock_timeseries_daily__add_user_overrides        *)
(* (market_data_aggregator.py): the user's dividend overrides written over *)
(* the series read from the store.                                         *)
(***************************************************************************)
MaxOverrides == 2

OverrideDates == 1..4

\* the columns of a row that the overrides read or write
SeriesRow(unit, date) ==
    [unit |-> unit, exdividend |-> IF date = 3 THEN 7 ELSE 0, dividend_denominator |-> 100]

\* data: a series per requested symbol, none of them empty.  The series of
\* IVV.AX has any dates, with or without gaps, in AUD or USD; that of NDQ.AX
\* has every date, in AUD.
SeriesInputs ==
    { [s \in {"IVV.AX", "NDQ.AX"} |->
          IF s = "IVV.AX" THEN [d \in index |-> SeriesRow(unit, d)]
          ELSE [d \in OverrideDates |-> SeriesRow("AUD", d)]] :
        index \in (SUBSET OverrideDates) \ {{}}, unit \in {"AUD", "USD"} }

\* the order of data.items()
DataSymbols == <<"IVV.AX", "NDQ.AX">>

OverrideRows ==
    [ric_symbol : {"IVV.AX", "NDQ.AX"},
     date : OverrideDates,
     exdividend_value : {Currency("AUD", Fraction(12, 100)), Currency("USD", Fraction(1, 4))}]

\* get_stock_dividend_overrides: the rows of the file; a symbol and date
\* appears once (a second row for it raises ValueError there)
OverrideFiles ==
    { f \in UNION {[1..n -> OverrideRows] : n \in 0..MaxOverrides} :
        \A i, j \in 1..Len(f) :
            (f[i].ric_symbol = f[j].ric_symbol /\ f[i].date = f[j].date) => i = j }

\* stock_dividend_overrides[symbol].items(): the rows of the symbol, in file order
OverridesOf(overrides, symbol) ==
    SelectSeq(overrides, LAMBDA o : o.ric_symbol = symbol)

MinDate(df) == CHOOSE d \in DOMAIN df : \A e \in DOMAIN df : d <= e

MaxDateOf(df) == CHOOSE d \in DOMAIN df : \A e \in DOMAIN df : e <= d

\* lines 70-93: one override against the series of its symbol
ApplyOverride(df, o) ==
    IF o.date < MinDate(df) \/ o.date > MaxDateOf(df)
    THEN [outcome |-> "ok", df |-> df]
    ELSE IF o.date \notin DOMAIN df
    THEN [outcome |-> "NotImplementedError: missing days", df |-> df]
    ELSE IF df[o.date].unit # o.exdividend_value.symbol
    THEN [outcome |-> "NotImplementedError: corner case", df |-> df]
    ELSE [outcome |-> "ok",
          df |-> [df EXCEPT ![o.date].exdividend = o.exdividend_value.value[1],
                            ![o.date].dividend_denominator = o.exdividend_value.value[2]]]

\* lines 69-93: the overrides of one symbol, up to the first that raises; the
\* series is written in place
RECURSIVE ApplyOverrides(_, _, _)
ApplyOverrides(df, rows, n) ==
    IF n = 0 THEN [outcome |-> "ok", df |-> df]
    ELSE LET done == ApplyOverrides(df, rows, n - 1)
         IN  IF done.outcome # "ok" THEN done ELSE ApplyOverride(done.df, rows[n])

\* lines 64-94: symbol after symbol, up to the first override that raises
RECURSIVE AddUserOverridesResult(_, _, _)
AddUserOverridesResult(data, overrides, n) ==
    IF n = 0 THEN [outcome |-> "ok", data |-> data]
    ELSE LET done == AddUserOverridesResult(data, overrides, n - 1)
             symbol == DataSymbols[n]
             rows == OverridesOf(overrides, symbol)
             r == ApplyOverrides(done.data[symbol], rows, Len(rows))
         IN  IF done.outcome # "ok" THEN done
             ELSE [outcome |-> r.outcome, data |-> [done.data EXCEPT ![symbol] = r.df]]

AddUserOverrides ==
    /\ overrides_ret = NoCallYet
    /\ overrides_ret' =
          AddUserOverridesResult(series_data, stock_dividend_overrides, Len(DataSymbols))
    /\ UNCHANGED <<series_data, stock_dividend_overrides, ledgerVars, storeVars,
                   historyVars, sourceVars, moneyVars>>

InitOverrides ==
    /\ LedgerIdle
    /\ StoreIdle
    /\ HistoryIdle
    /\ SourceIdle
    /\ MoneyIdle
    /\ series_data \in SeriesInputs
    /\ stock_dividend_overrides \in OverrideFiles
    /\ overrides_ret = NoCallYet

NextOverrides == AddUserOverrides

SpecOverrides == InitOverrides /\ [][NextOverrides]_vars

TypeOKOverrides == Len(stock_dividend_overrides) <= MaxOverrides

(***************************************************************************)
(* Properties of the dividend overrides.                                   *)
(***************************************************************************)
\* the override cannot be applied: its date is not a date of the series of
\* its symbol, or its currency is not the unit of the row
Inapplicable(o) ==
    \/ o.date \notin DOMAIN series_data[o.ric_symbol]
    \/ series_data[o.ric_symbol][o.date].unit # o.exdividend_value.symbol

\* the row of (symbol, date) as the overrides leave it: the dividend of the
\* override for it, when there is one
RowExpected(symbol, date) ==
    LET own == {i \in 1..Len(stock_dividend_overrides) :
                   /\ stock_dividend_overrides[i].ric_symbol = symbol
                   /\ stock_dividend_overrides[i].date = date}
        row == series_data[symbol][date]
    IN  IF own = {} THEN row
        ELSE LET o == stock_dividend_overrides[CHOOSE i \in own : TRUE]
             IN  [row EXCEPT !.exdividend = o.exdividend_value.value[1],
                             !.dividend_denominator = o.exdividend_value.value[2]]

\* C26: applying the overrides fails with NotImplementedError whenever an
\* override's date is missing from the series of its symbol, inside or outside
\* the range of its dates, or its currency differs from the unit of the row;
\* no override is skipped: when the call returns, every override has replaced
\* the dividend of the row of its (symbol, date), and of no other row.
C26_OverridesAppliedOrFail ==
    overrides_ret # NoCallYet =>
        /\ (\E i \in 1..Len(stock_dividend_overrides) :
                Inapplicable(stock_dividend_overrides[i]))
              => overrides_ret.outcome \in {"NotImplementedError: missing days",
                                            "NotImplementedError: corner case"}
        /\ overrides_ret.outcome = "ok" =>
              \A symbol \in DOMAIN series_data :
                  /\ DOMAIN overrides_ret.data[symbol] = DOMAIN series_data[symbol]
                  /\ \A date \in DOMAIN series_data[symbol] :
                        overrides_ret.data[symbol][date] = RowExpected(symbol, date)

====
